---- MODULE Spec2Model ----
(***************************************************************************)
(* A model of coral's typed AST (src/coral/ast.py): the lattice of bound   *)
(* types (BoundType, BoundTypeUnion, BoundFunctionType), lexical scopes    *)
(* (Scope, ScopeVar, GlobalVar), build_typed_ast, the type inference       *)
(* rounds and the validation pass of typecheck; and of the code generator  *)
(* (src/coral/compiler.py) with the runtime its output runs on.            *)
(*                                                                         *)
(* Four specifications share the module:                                   *)
(*   SpecLattice  the pure operations union / lower on pairs of types      *)
(*   SpecScope    Scope.declare / Scope.get on a tree of scopes            *)
(*   Spec         build_typed_ast, typecheck's inference loop and          *)
(*                validation, compile_ir, the run of the compiled program  *)
(*   SpecBox      the words CoralInteger.box / unbox compute               *)
(* Each leaves the variables of the other three at their idle values.      *)
(***************************************************************************)
EXTENDS Integers, Sequences, FiniteSets, TLC

VARIABLES
    \* SpecLattice
    lpc,        \* "idle" | "start" | "combined" | "absorbed"
    ta, tb,     \* the two operand types A, B
    tu, tl,     \* A.union(B), A.lower(B)
    tuba, tlba, \* B.union(A), B.lower(A)
    tlu, tul,   \* A.lower(A.union(B)), A.union(A.lower(B))
    \* SpecScope
    spc,        \* "idle" | "run"
    scopes,     \* sequence of Scope objects: [parent, locals, globals]
    svars,      \* sequence of ScopeVar objects: [name, type, index, changed]
    lastop,     \* the last Scope call and its outcome
    \* Spec
    pc,         \* "idle" | "start" | "infer" | "inferred" | "checked" | "raised"
                \*        | "compiled" | "uncompiled" | "exited" | "aborted"
    prog,       \* the syntax term given to typecheck
    ast,        \* the typed AST and everything reachable from it
    rounds,     \* completed passes of typecheck's while loop
    code,       \* the CoralFunctionCompilation of main after compile_ir
    mem,        \* the runtime heap after the run of the emitted calls
    \* SpecBox
    bpc,        \* "idle" | "unboxed" | "boxed" | "back" | "again"
    btype,      \* "INTEGER" | "BOOLEAN": the boundtype of the CoralInteger
    bvalue,     \* the value of the unboxed object: an LL_INT or an LL_BOOL
    bword,      \* the value of box(): the tagged word
    bback,      \* the value of box().unbox()
    bagain      \* the value of box().unbox().box()

lvars == <<lpc, ta, tb, tu, tl, tuba, tlba, tlu, tul>>
scvars == <<spc, scopes, svars, lastop>>
ivars == <<pc, prog, ast, rounds, code, mem>>
bvars == <<bpc, btype, bvalue, bword, bback, bagain>>
vars == <<lvars, scvars, ivars, bvars>>

-----------------------------------------------------------------------------
(* NativeType and the three classes of IBoundType.                         *)

NativeType == {"ANY", "UNDEFINED", "BOOLEAN", "INTEGER", "STRING", "TUPLE", "FUNCTION", "UNION"}

BoundType(type_, generics) == [cls |-> "BoundType", type |-> type_, generics |-> generics]

\* members: a Python dict, kept as the sequence of its items in insertion order
BoundTypeUnion(members) == [cls |-> "BoundTypeUnion", members |-> members]

BoundFunctionType(params, return_type) ==
    [cls |-> "BoundFunctionType", params |-> params, return_type |-> return_type]

\* the exception raised by BoundType.union / BoundType.lower on generics of different length
TypeErrorRaised == [cls |-> "TypeError"]

BOUND_ANY_TYPE == BoundType("ANY", <<>>)
BOUND_UNDEFINED_TYPE == BoundType("UNDEFINED", <<>>)
BOUND_BOOLEAN_TYPE == BoundType("BOOLEAN", <<>>)
BOUND_INTEGER_TYPE == BoundType("INTEGER", <<>>)
BOUND_STRING_TYPE == BoundType("STRING", <<>>)
BOUND_TUPLE_TYPE == BoundType("TUPLE", <<BOUND_ANY_TYPE, BOUND_ANY_TYPE>>)

\* the .type property of the three classes
TypeOf(t) ==
    CASE t.cls = "BoundType" -> t.type
      [] t.cls = "BoundTypeUnion" -> "UNION"
      [] t.cls = "BoundFunctionType" -> "FUNCTION"
      [] OTHER -> "ERROR"

\* the .generics property
GenericsOf(t) ==
    CASE t.cls = "BoundType" -> t.generics
      [] t.cls = "BoundFunctionType" -> <<t.return_type>>
      [] OTHER -> <<>>

(* Python dicts as sequences of [key, val] items.                          *)
DictHas(d, k) == \E i \in 1..Len(d) : d[i].key = k

\* d.get(k, None); callers test DictHas first
DictGet(d, k) == d[CHOOSE i \in 1..Len(d) : d[i].key = k].val

\* d[k] = v: an existing key keeps its position
DictSet(d, k, v) ==
    IF DictHas(d, k)
    THEN [i \in 1..Len(d) |-> IF d[i].key = k THEN [key |-> k, val |-> v] ELSE d[i]]
    ELSE Append(d, [key |-> k, val |-> v])

RECURSIVE DictOfMembers(_)
\* {member.type: member for member in members}
DictOfMembers(members) ==
    IF Len(members) = 0 THEN <<>>
    ELSE LET front == DictOfMembers(SubSeq(members, 1, Len(members) - 1))
             last == members[Len(members)]
         IN DictSet(front, TypeOf(last), last)

\* BoundTypeUnion.for_members
for_members(members) == BoundTypeUnion(DictOfMembers(members))

BINOP_ADD_TYPES == for_members(<<BOUND_INTEGER_TYPE, BOUND_STRING_TYPE>>)
BINOP_EQUAL_TYPES == for_members(<<BOUND_BOOLEAN_TYPE, BOUND_INTEGER_TYPE, BOUND_STRING_TYPE>>)

RECURSIVE is_static(_)
is_static(t) ==
    CASE t.cls = "BoundType" ->
            /\ t.type # "ANY"
            /\ t.type # "UNDEFINED"
            /\ \A i \in 1..Len(t.generics) : is_static(t.generics[i])
      [] t.cls = "BoundTypeUnion" -> FALSE
      [] t.cls = "BoundFunctionType" ->
            /\ is_static(t.return_type)
            /\ \A i \in 1..Len(t.params) : is_static(t.params[i])
      [] OTHER -> FALSE

RECURSIVE eq(_, _)
\* __eq__ of the three classes; tuples compare element by element, dicts by key
eq(a, b) ==
    CASE a.cls = "BoundType" ->
            /\ b.cls = "BoundType"
            /\ a.type = b.type
            /\ Len(a.generics) = Len(b.generics)
            /\ \A i \in 1..Len(a.generics) : eq(a.generics[i], b.generics[i])
      [] a.cls = "BoundTypeUnion" ->
            /\ b.cls = "BoundTypeUnion"
            /\ Len(a.members) = Len(b.members)
            /\ \A i \in 1..Len(a.members) :
                  /\ DictHas(b.members, a.members[i].key)
                  /\ eq(a.members[i].val, DictGet(b.members, a.members[i].key))
      [] a.cls = "BoundFunctionType" ->
            /\ b.cls = "BoundFunctionType"
            /\ eq(a.return_type, b.return_type)
            /\ Len(a.params) = Len(b.params)
            /\ \A i \in 1..Len(a.params) : eq(a.params[i], b.params[i])
      [] OTHER -> a = b

\* `len(self._params) != other.params`: Python compares an int with a tuple,
\* and an int is never equal to a tuple
IntNeTuple(n, tuple_) == TRUE

RECURSIVE union(_, _), lower(_, _)

\* BoundType.union
BoundType_union(self, other) ==
    IF self.type = "ANY" \/ self.type = "UNDEFINED" THEN self
    ELSE IF TypeOf(other) = "ANY" \/ TypeOf(other) = "UNDEFINED" THEN other
    ELSE IF TypeOf(other) = "UNION" \/ TypeOf(other) = "FUNCTION" THEN union(other, self)
    ELSE IF self.type # TypeOf(other)
    THEN BoundTypeUnion(DictSet(<<[key |-> self.type, val |-> self]>>, TypeOf(other), other))
    ELSE IF Len(self.generics) # Len(other.generics) THEN TypeErrorRaised
    ELSE IF Len(self.generics) = 0 THEN self
    ELSE BoundType(self.type,
                   [i \in 1..Len(self.generics) |-> union(self.generics[i], other.generics[i])])

\* BoundTypeUnion.union
BoundTypeUnion_union(self, other) ==
    IF TypeOf(other) = "ANY" \/ TypeOf(other) = "UNDEFINED" THEN other
    ELSE IF TypeOf(other) = "UNION"
    THEN LET union_ == [i \in 1..Len(self.members) |->
                          LET my_member == self.members[i].val
                          IN IF ~DictHas(other.members, TypeOf(my_member))
                             THEN my_member
                             ELSE union(my_member, DictGet(other.members, TypeOf(my_member)))]
         IN BoundTypeUnion(DictOfMembers(union_))
    ELSE IF ~DictHas(self.members, TypeOf(other)) THEN self
    ELSE LET my_member2 == DictGet(self.members, TypeOf(other))
         IN BoundTypeUnion(DictSet(self.members, TypeOf(my_member2), union(my_member2, other)))

\* BoundFunctionType.union
BoundFunctionType_union(self, other) ==
    IF TypeOf(other) = "ANY" \/ TypeOf(other) = "UNDEFINED" THEN other
    ELSE IF TypeOf(other) = "UNION" THEN union(other, self)
    ELSE IF TypeOf(other) # "FUNCTION"
    THEN BoundTypeUnion(DictSet(<<[key |-> "FUNCTION", val |-> self]>>, TypeOf(other), other))
    ELSE IF IntNeTuple(Len(self.params), other.params) THEN BOUND_UNDEFINED_TYPE
    ELSE BoundFunctionType(
            [i \in 1..Len(other.params) |-> union(other.params[i], other.params[i])],
            union(self.return_type, other.return_type))

union(self, other) ==
    CASE self.cls = "BoundType" -> BoundType_union(self, other)
      [] self.cls = "BoundTypeUnion" -> BoundTypeUnion_union(self, other)
      [] self.cls = "BoundFunctionType" -> BoundFunctionType_union(self, other)
      [] OTHER -> TypeErrorRaised

\* BoundType.lower
BoundType_lower(self, other) ==
    IF self.type = "UNDEFINED" THEN self
    ELSE IF TypeOf(other) = "UNDEFINED" THEN other
    ELSE IF self.type = "ANY" THEN other
    ELSE IF TypeOf(other) = "ANY" THEN self
    ELSE IF TypeOf(other) = "UNION" THEN lower(other, self)
    ELSE IF TypeOf(other) # self.type THEN BoundType("UNDEFINED", <<>>)
    ELSE IF Len(self.generics) # Len(other.generics) THEN TypeErrorRaised
    ELSE IF Len(self.generics) = 0 THEN self
    ELSE BoundType(self.type,
                   [i \in 1..Len(self.generics) |-> lower(self.generics[i], other.generics[i])])

\* BoundTypeUnion.lower
BoundTypeUnion_lower(self, other) ==
    IF TypeOf(other) = "ANY" THEN self
    ELSE IF TypeOf(other) = "UNDEFINED" THEN other
    ELSE IF TypeOf(other) = "UNION"
    THEN LET common == SelectSeq(self.members,
                                 LAMBDA it : DictHas(other.members, TypeOf(it.val)))
             intersection == [i \in 1..Len(common) |->
                                lower(common[i].val, DictGet(other.members, TypeOf(common[i].val)))]
         IN IF Len(intersection) = 0 THEN BoundType("UNDEFINED", <<>>)
            ELSE BoundTypeUnion(DictOfMembers(intersection))
    ELSE IF ~DictHas(self.members, TypeOf(other)) THEN BoundType("UNDEFINED", <<>>)
    ELSE lower(DictGet(self.members, TypeOf(other)), other)

\* BoundFunctionType.lower
BoundFunctionType_lower(self, other) ==
    IF TypeOf(other) = "UNDEFINED" THEN other
    ELSE IF TypeOf(other) = "ANY" THEN self
    ELSE IF TypeOf(other) = "UNION" THEN lower(other, self)
    ELSE IF TypeOf(other) # "FUNCTION" THEN BoundType("UNDEFINED", <<>>)
    ELSE IF Len(self.params) # Len(other.params) THEN BoundType("UNDEFINED", <<>>)
    ELSE BoundFunctionType(
            [i \in 1..Len(self.params) |-> lower(self.params[i], other.params[i])],
            lower(self.return_type, other.return_type))

lower(self, other) ==
    CASE self.cls = "BoundType" -> BoundType_lower(self, other)
      [] self.cls = "BoundTypeUnion" -> BoundTypeUnion_lower(self, other)
      [] self.cls = "BoundFunctionType" -> BoundFunctionType_lower(self, other)
      [] OTHER -> TypeErrorRaised

-----------------------------------------------------------------------------
(* ScopeVar, GlobalVar and Scope.  Objects live in a heap h: h.scopes and   *)
(* h.vars are sequences, an object's identity is its position.  A scope's    *)
(* locals and globals are dicts keyed by name.                               *)

\* ScopeVar.__init__
ScopeVar(type_, name, index) == [type |-> type_, name |-> name, index |-> index, changed |-> FALSE]

\* GlobalVar.__init__
GlobalVar(var, index) == [var |-> var, index |-> index]

\* Scope.__init__; the new scope is the last of h.scopes
Scope(h, parent) ==
    [h EXCEPT !.scopes = Append(@, [parent |-> parent, locals |-> <<>>, globals |-> <<>>])]

\* Scope.declare without its `if name in self.locals` guard: the dict entry is overwritten
Scope_declare_unguarded(h, self, name, type_) ==
    LET var == Len(h.vars) + 1
    IN [h |-> [h EXCEPT !.vars = Append(@, ScopeVar(type_, name, Len(h.scopes[self].locals))),
                       !.scopes[self].locals = DictSet(@, name, var)],
        var |-> var,
        err |-> "none"]

\* Scope.declare: [h, var, err]; err is "SyntaxError" when the name is already defined
Scope_declare(h, self, name, type_) ==
    IF DictHas(h.scopes[self].locals, name)
    THEN [h |-> h, var |-> 0, err |-> "SyntaxError"]
    ELSE LET var == Len(h.vars) + 1
         IN [h |-> [h EXCEPT !.vars = Append(@, ScopeVar(type_, name, Len(h.scopes[self].locals))),
                            !.scopes[self].locals = Append(@, [key |-> name, val |-> var])],
             var |-> var,
             err |-> "none"]

RECURSIVE Scope_get(_, _, _)
\* Scope.get that records the capture in the resolving scope only when its parent
\* declares the name: the scopes further up the path get no entry
Scope_get_unrecorded(h, self, name) ==
    LET scope == h.scopes[self]
    IN IF DictHas(scope.locals, name)
       THEN [h |-> h, var |-> DictGet(scope.locals, name), err |-> "none"]
       ELSE IF DictHas(scope.globals, name)
       THEN [h |-> h, var |-> DictGet(scope.globals, name).var, err |-> "none"]
       ELSE IF scope.parent # 0
       THEN LET up == Scope_get(h, scope.parent, name)
            IN IF up.err # "none" THEN up
               ELSE [h |-> [h EXCEPT !.scopes[self].globals =
                                  Append(@, [key |-> name,
                                             val |-> GlobalVar(up.var, Len(h.scopes[self].globals))])],
                     var |-> up.var,
                     err |-> "none"]
       ELSE [h |-> h, var |-> 0, err |-> "ValueError"]

\* Scope.get: [h, var, err]; err is "ValueError" when the name is not defined
Scope_get(h, self, name) ==
    LET scope == h.scopes[self]
    IN IF DictHas(scope.locals, name)
       THEN [h |-> h, var |-> DictGet(scope.locals, name), err |-> "none"]
       ELSE IF DictHas(scope.globals, name)
       THEN [h |-> h, var |-> DictGet(scope.globals, name).var, err |-> "none"]
       ELSE IF scope.parent # 0
       THEN LET up == Scope_get(h, scope.parent, name)
            IN IF up.err # "none" THEN up
               ELSE [h |-> [up.h EXCEPT !.scopes[self].globals =
                                  Append(@, [key |-> name,
                                             val |-> GlobalVar(up.var, Len(up.h.scopes[self].globals))])],
                     var |-> up.var,
                     err |-> "none"]
       ELSE [h |-> h, var |-> 0, err |-> "ValueError"]

-----------------------------------------------------------------------------
(* The typed AST.  Expression objects live in h.nodes, an object's identity  *)
(* is its position, 0 stands for None.  h.allvars is typecheck's `allvars`   *)
(* list and h.err the exception that ended the run ("none": no exception).   *)
(* h.log is the trace of the inference rounds: <<"call", node,               *)
(* supertype>> and <<"return", node, type>> for every infertype call, and    *)
(* <<"partial", node, type>> for every FunctionExpression.                   *)
(* handle_partial_inference call.                                            *)

EmptyHeap == [scopes |-> <<>>, vars |-> <<>>, nodes |-> <<>>, allvars |-> <<>>, root |-> 0,
              err |-> "none", at |-> 0, log |-> <<>>]

\* an event of the inference round, unless an exception is unwinding the call
Log(h, event) == IF h.err = "none" THEN [h EXCEPT !.log = Append(@, event)] ELSE h

Raise(h, e) == IF h.err = "none" THEN [h EXCEPT !.err = e] ELSE h

\* a raise in a method of the Expression `self`; h.at keeps the node that raised
RaiseAt(h, e, self) == IF h.err = "none" THEN [h EXCEPT !.err = e, !.at = self] ELSE h

\* an object construction: the new Expression is the last of h.nodes
New(h, node) == [h |-> [h EXCEPT !.nodes = Append(@, node)], id |-> Len(h.nodes) + 1]

SetParent(h, n, parent) == [h EXCEPT !.nodes[n].parent = parent]

RECURSIVE SetParents(_, _, _)
\* for arg in args: arg.parent = call
SetParents(h, ns, parent) ==
    IF Len(ns) = 0 THEN h
    ELSE SetParents(SetParent(h, Head(ns), parent), Tail(ns), parent)

LiteralBooleanValue(scope, parent) ==
    [cls |-> "LiteralBooleanValue", boundtype |-> BOUND_BOOLEAN_TYPE, parent |-> parent, scope |-> scope]

LiteralIntegerValue(scope, parent) ==
    [cls |-> "LiteralIntegerValue", boundtype |-> BOUND_INTEGER_TYPE, parent |-> parent, scope |-> scope]

LiteralStringValue(scope, parent) ==
    [cls |-> "LiteralStringValue", boundtype |-> BOUND_STRING_TYPE, parent |-> parent, scope |-> scope]

ReferenceExpression(type_, scope, parent, var) ==
    [cls |-> "ReferenceExpression", boundtype |-> type_, parent |-> parent, scope |-> scope, var |-> var]

TupleExpression(type_, scope, parent, first, second) ==
    [cls |-> "TupleExpression", boundtype |-> type_, parent |-> parent, scope |-> scope,
     first |-> first, second |-> second]

\* PrintExpression, FirstExpression, SecondExpression
UnaryExpression(cls, scope, parent, value) ==
    [cls |-> cls, boundtype |-> BOUND_ANY_TYPE, parent |-> parent, scope |-> scope, value |-> value]

\* ConcatenateExpression, ArithmeticExpression, NumericComparisonExpression,
\* BooleanExpression, EqualsExpression
BinaryExpression(cls, scope, parent, left, op, right) ==
    [cls |-> cls, boundtype |-> BOUND_ANY_TYPE, parent |-> parent, scope |-> scope,
     left |-> left, op |-> op, right |-> right]

ConditionalExpression(scope, parent, cond, then, alternate) ==
    [cls |-> "ConditionalExpression", boundtype |-> BOUND_ANY_TYPE, parent |-> parent, scope |-> scope,
     cond |-> cond, then |-> then, alternate |-> alternate]

CallExpression(scope, parent, callee, args) ==
    [cls |-> "CallExpression", boundtype |-> BOUND_ANY_TYPE, parent |-> parent, scope |-> scope,
     callee |-> callee, args |-> args]

FunctionExpression(type_, scope, parent, params, body, binding) ==
    [cls |-> "FunctionExpression", boundtype |-> type_, parent |-> parent, scope |-> scope,
     params |-> params, body |-> body, binding |-> binding]

LetExpression(scope, parent, binding, value, next) ==
    [cls |-> "LetExpression", boundtype |-> BOUND_ANY_TYPE, parent |-> parent, scope |-> scope,
     binding |-> binding, value |-> value, next |-> next]

\* the class build_typed_ast picks for a Binary term (_RINHAOP_PARSE_DICT and the match on op)
BinaryClass(op) ==
    CASE op = "Add" -> "ConcatenateExpression"
      [] op \in {"Sub", "Mul", "Div", "Rem"} -> "ArithmeticExpression"
      [] op \in {"Lt", "Lte", "Gt", "Gte"} -> "NumericComparisonExpression"
      [] op \in {"And", "Or"} -> "BooleanExpression"
      [] op \in {"Eq", "Neq"} -> "EqualsExpression"

\* ScopeVar.may_change
may_change(h, var, newtype) ==
    IF ~eq(newtype, h.vars[var].type)
    THEN [h EXCEPT !.vars[var].type = newtype, !.vars[var].changed = TRUE]
    ELSE h

\* ReferenceExpression.update_type
update_type(h, self, v) ==
    LET h1 == may_change(h, h.nodes[self].var, v)
    IN [h1 EXCEPT !.nodes[self].boundtype = h1.vars[h.nodes[self].var].type]

\* ReferenceExpression.refresh_type
refresh_type(h, self) ==
    [h EXCEPT !.nodes[self].boundtype = h.vars[h.nodes[self].var].type]

RECURSIVE DeclareParams(_, _, _, _)
\* [funcscope.declare(param['text'], BOUND_ANY_TYPE) for param in term['parameters']]: [h, vars]
DeclareParams(h, funcscope, parameters, done) ==
    IF Len(parameters) = 0 THEN [h |-> h, vars |-> done]
    ELSE LET r == Scope_declare(h, funcscope, Head(parameters), BOUND_ANY_TYPE)
         IN IF r.err # "none" THEN [h |-> Raise(h, r.err), vars |-> done]
            ELSE DeclareParams(r.h, funcscope, Tail(parameters), Append(done, r.var))

RECURSIVE ParamReferences(_, _, _, _)
\* the ReferenceExpression made for each parameter: [h, ids]
ParamReferences(h, funcscope, params, done) ==
    IF Len(params) = 0 THEN [h |-> h, ids |-> done]
    ELSE LET n == New(h, ReferenceExpression(h.vars[Head(params)].type, funcscope, 0, Head(params)))
         IN ParamReferences(n.h, funcscope, Tail(params), Append(done, n.id))

\* a Let that declares its name after its value is built, whatever the value
DeclaresFirst_never(term) == FALSE

\* build_typed_ast 'Let': the test that declares the name before the value is built
DeclaresFirst(term) == term.name # "_" /\ term.value.kind = "Function"

RECURSIVE build_typed_ast(_, _, _, _, _), BuildArgs(_, _, _, _)

\* [build_typed_ast(arg, None, scope, vars) for arg in term['arguments']]: [h, ids]
BuildArgs(h, arguments, scope, done) ==
    IF Len(arguments) = 0 \/ h.err # "none" THEN [h |-> h, ids |-> done]
    ELSE LET a == build_typed_ast(h, Head(arguments), 0, scope, 0)
         IN BuildArgs(a.h, Tail(arguments), scope, Append(done, a.id))

\* build_typed_ast(term, parent, scope, vars, binding=binding): [h, id].
\* When an exception is raised h.err names it and id is 0.
build_typed_ast(h, term, parent, scope, binding) ==
    CASE term.kind = "Var" ->
            LET g == Scope_get(h, scope, term.text)
            IN IF g.err # "none" THEN [h |-> Raise(h, g.err), id |-> 0]
               ELSE New(g.h, ReferenceExpression(g.h.vars[g.var].type, scope, parent, g.var))
      [] term.kind = "Int" -> New(h, LiteralIntegerValue(scope, parent))
      [] term.kind = "Str" -> New(h, LiteralStringValue(scope, parent))
      [] term.kind = "Bool" -> New(h, LiteralBooleanValue(scope, parent))
      [] term.kind = "Tuple" ->
            LET first == build_typed_ast(h, term.first, 0, scope, 0)
                second == build_typed_ast(first.h, term.second, 0, scope, 0)
                tuple_ == New(second.h,
                              TupleExpression(BoundType("TUPLE", <<second.h.nodes[first.id].boundtype,
                                                                  second.h.nodes[second.id].boundtype>>),
                                              scope, parent, first.id, second.id))
            IN IF first.h.err # "none" THEN [h |-> first.h, id |-> 0]
               ELSE IF second.h.err # "none" THEN [h |-> second.h, id |-> 0]
               ELSE [h |-> SetParent(SetParent(tuple_.h, first.id, tuple_.id), second.id, tuple_.id),
                     id |-> tuple_.id]
      [] term.kind = "Call" ->
            LET callee == build_typed_ast(h, term.callee, 0, scope, 0)
                args == BuildArgs(callee.h, term.arguments, scope, <<>>)
                call == New(args.h, CallExpression(scope, parent, callee.id, args.ids))
            IN IF callee.h.err # "none" THEN [h |-> callee.h, id |-> 0]
               ELSE IF args.h.err # "none" THEN [h |-> args.h, id |-> 0]
               ELSE [h |-> SetParents(SetParent(call.h, callee.id, call.id), args.ids, call.id),
                     id |-> call.id]
      [] term.kind \in {"Print", "First", "Second"} ->
            LET value == build_typed_ast(h, term.value, 0, scope, 0)
                cls == CASE term.kind = "Print" -> "PrintExpression"
                         [] term.kind = "First" -> "FirstExpression"
                         [] term.kind = "Second" -> "SecondExpression"
                node == New(value.h, UnaryExpression(cls, scope, parent, value.id))
            IN IF value.h.err # "none" THEN [h |-> value.h, id |-> 0]
               ELSE [h |-> SetParent(node.h, value.id, node.id), id |-> node.id]
      [] term.kind = "Binary" ->
            LET left == build_typed_ast(h, term.lhs, 0, scope, 0)
                right == build_typed_ast(left.h, term.rhs, 0, scope, 0)
                exp == New(right.h, BinaryExpression(BinaryClass(term.op), scope, parent,
                                                     left.id, term.op, right.id))
            IN IF left.h.err # "none" THEN [h |-> left.h, id |-> 0]
               ELSE IF right.h.err # "none" THEN [h |-> right.h, id |-> 0]
               ELSE [h |-> SetParent(SetParent(exp.h, left.id, exp.id), right.id, exp.id),
                     id |-> exp.id]
      [] term.kind = "If" ->
            LET cond == build_typed_ast(h, term.condition, 0, scope, 0)
                \* branches create new variable scope
                thenscope == Scope(cond.h, scope)
                then == build_typed_ast(thenscope, term.then, 0, Len(thenscope.scopes), 0)
                altscope == Scope(then.h, scope)
                alternate == build_typed_ast(altscope, term.otherwise, 0, Len(altscope.scopes), 0)
                exp2 == New(alternate.h,
                            ConditionalExpression(scope, parent, cond.id, then.id, alternate.id))
            IN IF cond.h.err # "none" THEN [h |-> cond.h, id |-> 0]
               ELSE IF then.h.err # "none" THEN [h |-> then.h, id |-> 0]
               ELSE IF alternate.h.err # "none" THEN [h |-> alternate.h, id |-> 0]
               ELSE [h |-> SetParent(SetParent(SetParent(exp2.h, cond.id, exp2.id),
                                               then.id, exp2.id), alternate.id, exp2.id),
                     id |-> exp2.id]
      [] term.kind = "Function" ->
            LET scoped == Scope(h, scope)
                funcscope == Len(scoped.scopes)
                params == DeclareParams(scoped, funcscope, term.parameters, <<>>)
                body == build_typed_ast(params.h, term.value, 0, funcscope, 0)
                refs == ParamReferences(body.h, funcscope, params.vars, <<>>)
                func == New(refs.h,
                            FunctionExpression(
                                BoundFunctionType([i \in 1..Len(params.vars) |->
                                                      refs.h.vars[params.vars[i]].type],
                                                  BOUND_ANY_TYPE),
                                funcscope, parent, refs.ids, body.id, binding))
            IN IF params.h.err # "none" THEN [h |-> params.h, id |-> 0]
               ELSE IF body.h.err # "none" THEN [h |-> body.h, id |-> 0]
               ELSE [h |-> [SetParent(func.h, body.id, func.id)
                               EXCEPT !.allvars = @ \o params.vars],
                     id |-> func.id]
      [] term.kind = "Let" ->
            IF DeclaresFirst(term)
            THEN LET decl == Scope_declare(h, scope, term.name, BOUND_ANY_TYPE)
                     bind == New(decl.h, ReferenceExpression(decl.h.vars[decl.var].type, scope, 0, decl.var))
                     value5 == build_typed_ast(bind.h, term.value, 0, scope, bind.id)
                     updated == [update_type(value5.h, bind.id, value5.h.nodes[value5.id].boundtype)
                                    EXCEPT !.allvars = Append(@, decl.var)]
                     next_ == build_typed_ast(updated, term.next, parent, scope, 0)
                     exp3 == New(next_.h, LetExpression(scope, parent, bind.id, value5.id, next_.id))
                 IN IF decl.err # "none" THEN [h |-> Raise(h, decl.err), id |-> 0]
                    ELSE IF value5.h.err # "none" THEN [h |-> value5.h, id |-> 0]
                    ELSE IF next_.h.err # "none" THEN [h |-> next_.h, id |-> 0]
                    ELSE [h |-> SetParent(exp3.h, value5.id, exp3.id), id |-> exp3.id]
            ELSE LET value5 == build_typed_ast(h, term.value, 0, scope, 0)
                     decl == Scope_declare(value5.h, scope, term.name,
                                           value5.h.nodes[value5.id].boundtype)
                     bind == New(decl.h, ReferenceExpression(decl.h.vars[decl.var].type, scope, 0, decl.var))
                     bound == IF term.name # "_"
                              THEN [h |-> [bind.h EXCEPT !.allvars = Append(@, decl.var)], id |-> bind.id]
                              ELSE [h |-> value5.h, id |-> 0]
                     next_ == build_typed_ast(bound.h, term.next, parent, scope, 0)
                     exp3 == New(next_.h, LetExpression(scope, parent, bound.id, value5.id, next_.id))
                 IN IF value5.h.err # "none" THEN [h |-> value5.h, id |-> 0]
                    ELSE IF term.name # "_" /\ decl.err # "none"
                    THEN [h |-> Raise(value5.h, decl.err), id |-> 0]
                    ELSE IF next_.h.err # "none" THEN [h |-> next_.h, id |-> 0]
                    ELSE [h |-> SetParent(exp3.h, value5.id, exp3.id), id |-> exp3.id]

-----------------------------------------------------------------------------
(* Type inference.  Each infertype returns [h, t]: the heap after the call   *)
(* and the type returned.  Once h.err names an exception nothing is changed. *)

\* v = x followed by F(v): the value of x is computed once, as the assignment computes it
Only(S) == CHOOSE v \in S : TRUE
Bind(x, F(_)) == Only({F(v) : v \in {x}})

\* lowers_any that never finds self more specialized than other
lowers_any_never(self, other) == FALSE

\* IBoundType.lowers_any and its override BoundFunctionType.lowers_any
lowers_any(self, other) ==
    LET lower_ == lower(self, other)
    IN IF self.cls = "BoundFunctionType"
       THEN IF TypeOf(lower_) = "UNDEFINED" THEN TRUE
            ELSE /\ TypeOf(lower_.return_type) # "ANY"
                 /\ \A i \in 1..Len(lower_.params) : TypeOf(lower_.params[i]) # "ANY"
       ELSE TypeOf(lower_) # "ANY"

\* self.boundtype = type_, unless an exception is unwinding the call
SetBoundtype(h, self, type_) ==
    IF h.err # "none" THEN h ELSE [h EXCEPT !.nodes[self].boundtype = type_]

\* the test of Expression.try_infertype on lower = supertype.lower(self.boundtype)
ShouldInfer(lower_) ==
    /\ TypeOf(lower_) # "ANY"
    /\ TypeOf(lower_) # "UNDEFINED"
    /\ \A i \in 1..Len(GenericsOf(lower_)) :
          TypeOf(GenericsOf(lower_)[i]) # "ANY" /\ TypeOf(GenericsOf(lower_)[i]) # "UNDEFINED"

RECURSIVE infertype(_, _, _), try_infertype(_, _, _), handle_partial_inference(_, _, _)
RECURSIVE Expression_infertype(_, _, _)
RECURSIVE InferArgs(_, _, _), TryInferArgs(_, _, _, _, _), InferParams(_, _, _, _)

\* tuple(arg.infertype(BOUND_ANY_TYPE) for arg in self.args): [h, ts]
InferArgs(h, args, done) ==
    IF Len(args) = 0 THEN [h |-> h, ts |-> done]
    ELSE Bind(infertype(h, Head(args), BOUND_ANY_TYPE), LAMBDA a :
         InferArgs(a.h, Tail(args), Append(done, a.t)))

\* tuple(arg.try_infertype(callee_type.params[i]) for i, arg in enumerate(self.args)): [h, ts];
\* params[i] raises IndexError when there are more arguments than parameters
TryInferArgs(h, args, params, i, done) ==
    IF i > Len(args) \/ h.err # "none" THEN [h |-> h, ts |-> done]
    ELSE IF i > Len(params) THEN [h |-> Raise(h, "IndexError"), ts |-> done]
    ELSE Bind(try_infertype(h, args[i], params[i]), LAMBDA a :
         TryInferArgs(a.h, args, params, i + 1, Append(done, a.t)))

\* for i, param in enumerate(self.params): param.infertype(param_types[i])
InferParams(h, params, param_types, i) ==
    IF i > Len(params) THEN h
    ELSE InferParams(infertype(h, params[i], param_types[i]).h, params, param_types, i + 1)

\* Expression.try_infertype
try_infertype(h, self, supertype) ==
    IF ShouldInfer(lower(supertype, h.nodes[self].boundtype))
    THEN infertype(h, self, supertype)
    ELSE [h |-> h, t |-> h.nodes[self].boundtype]

\* handle_partial_inference of Expression, ConditionalExpression, LetExpression and
\* FunctionExpression: the heap after the call
handle_partial_inference(h, self, type_) ==
    LET node == h.nodes[self]
    IN CASE node.cls \in {"ConditionalExpression", "LetExpression"} ->
                IF node.parent # 0 THEN handle_partial_inference(h, node.parent, type_) ELSE h
         [] node.cls = "FunctionExpression" ->
                IF node.binding # 0 /\ lowers_any(type_, node.boundtype.return_type)
                THEN infertype(Log(h, <<"partial", self, type_>>), node.binding,
                               BoundFunctionType(node.boundtype.params, type_)).h
                ELSE Log(h, <<"partial", self, type_>>)
         [] OTHER -> h

\* the type ConcatenateExpression.infertype binds for operands of types left and right
ConcatenateType(left, right) ==
    IF TypeOf(left) = "INTEGER" /\ TypeOf(right) = "INTEGER" THEN BOUND_INTEGER_TYPE
    ELSE IF TypeOf(left) = "STRING" \/ TypeOf(right) = "STRING" THEN BOUND_STRING_TYPE
    ELSE BINOP_ADD_TYPES

\* a conditional bound to the type of its then branch alone
ConditionalType_then(then, alternate) == then

\* self.boundtype = then.lower(alternate) of ConditionalExpression.infertype
ConditionalType(then, alternate) == lower(then, alternate)

\* a call of infertype on node self, with its entry and its return in the trace
infertype(h, self, supertype) ==
    IF h.err # "none" THEN [h |-> h, t |-> BOUND_UNDEFINED_TYPE]
    ELSE Bind(Expression_infertype(Log(h, <<"call", self, supertype>>), self, supertype), LAMBDA done :
         [h |-> Log(done.h, <<"return", self, done.t>>), t |-> done.t])

\* Expression.infertype as each class overrides it
Expression_infertype(h, self, supertype) ==
    LET node == h.nodes[self]
    IN IF h.err # "none" THEN [h |-> h, t |-> BOUND_UNDEFINED_TYPE]
       ELSE CASE node.cls = "LiteralBooleanValue" -> [h |-> h, t |-> lower(supertype, BOUND_BOOLEAN_TYPE)]
         [] node.cls = "LiteralIntegerValue" -> [h |-> h, t |-> lower(supertype, BOUND_INTEGER_TYPE)]
         [] node.cls = "LiteralStringValue" -> [h |-> h, t |-> lower(supertype, BOUND_STRING_TYPE)]
         [] node.cls = "ReferenceExpression" ->
                Bind(update_type(h, self, lower(h.vars[node.var].type, supertype)), LAMBDA h1 :
                [h |-> h1, t |-> h1.nodes[self].boundtype])
         [] node.cls = "ConcatenateExpression" ->
                Bind(infertype(h, node.left, BINOP_ADD_TYPES), LAMBDA left :
                Bind(infertype(left.h, node.right, BINOP_ADD_TYPES), LAMBDA right :
                Bind(ConcatenateType(left.t, right.t), LAMBDA boundtype :
                [h |-> SetBoundtype(right.h, self, boundtype), t |-> lower(supertype, boundtype)])))
         [] node.cls \in {"ArithmeticExpression", "NumericComparisonExpression"} ->
                Bind(infertype(h, node.left, BOUND_INTEGER_TYPE), LAMBDA left :
                Bind(infertype(left.h, node.right, BOUND_INTEGER_TYPE), LAMBDA right :
                Bind(IF node.cls = "ArithmeticExpression" THEN BOUND_INTEGER_TYPE ELSE BOUND_BOOLEAN_TYPE,
                     LAMBDA boundtype :
                [h |-> SetBoundtype(right.h, self, boundtype), t |-> lower(supertype, boundtype)])))
         [] node.cls = "BooleanExpression" ->
                Bind(infertype(h, node.left, BOUND_BOOLEAN_TYPE), LAMBDA left :
                Bind(infertype(left.h, node.right, BOUND_BOOLEAN_TYPE), LAMBDA right :
                [h |-> SetBoundtype(right.h, self, BOUND_BOOLEAN_TYPE),
                 t |-> lower(supertype, BOUND_BOOLEAN_TYPE)]))
         [] node.cls = "EqualsExpression" ->
                Bind(infertype(h, node.left, BINOP_EQUAL_TYPES), LAMBDA left :
                Bind(IF TypeOf(left.t) \in {"BOOLEAN", "INTEGER", "STRING"}
                     THEN infertype(left.h, node.right, BoundType(TypeOf(left.t), <<>>)).h
                     ELSE Bind(infertype(left.h, node.right, BINOP_EQUAL_TYPES), LAMBDA right :
                          IF TypeOf(right.t) \in {"BOOLEAN", "INTEGER", "STRING"}
                          THEN infertype(right.h, node.left, BoundType(TypeOf(right.t), <<>>)).h
                          ELSE right.h),
                     LAMBDA h1 :
                [h |-> SetBoundtype(h1, self, BOUND_BOOLEAN_TYPE),
                 t |-> lower(supertype, BOUND_BOOLEAN_TYPE)]))
         [] node.cls = "PrintExpression" -> infertype(h, node.value, supertype)
         [] node.cls = "TupleExpression" ->
                Bind(lower(supertype, BOUND_TUPLE_TYPE), LAMBDA supertuple :
                IF TypeOf(supertuple) = "TUPLE"
                THEN Bind(infertype(h, node.first, supertuple.generics[1]), LAMBDA first :
                     Bind(infertype(first.h, node.second, supertuple.generics[2]), LAMBDA second :
                     Bind(BoundType("TUPLE", <<first.t, second.t>>), LAMBDA boundtype :
                     [h |-> SetBoundtype(second.h, self, boundtype), t |-> boundtype])))
                ELSE [h |-> SetBoundtype(h, self, BOUND_TUPLE_TYPE), t |-> BOUND_UNDEFINED_TYPE])
         [] node.cls \in {"FirstExpression", "SecondExpression"} ->
                Bind(IF node.cls = "FirstExpression" THEN 1 ELSE 2, LAMBDA i :
                Bind(infertype(h, node.value,
                               BoundType("TUPLE", IF i = 1 THEN <<supertype, BOUND_ANY_TYPE>>
                                                  ELSE <<BOUND_ANY_TYPE, supertype>>)),
                     LAMBDA signature :
                IF TypeOf(signature.t) = "TUPLE"
                THEN [h |-> SetBoundtype(signature.h, self, signature.t.generics[i]),
                      t |-> signature.t.generics[i]]
                ELSE [h |-> SetBoundtype(signature.h, self, BOUND_UNDEFINED_TYPE),
                      t |-> BOUND_UNDEFINED_TYPE]))
         [] node.cls = "ConditionalExpression" ->
                Bind(infertype(h, node.cond, BOUND_BOOLEAN_TYPE), LAMBDA cond :
                Bind(infertype(cond.h, node.then, supertype), LAMBDA then :
                Bind(IF node.parent # 0 /\ then.h.err = "none"
                     THEN handle_partial_inference(then.h, node.parent, then.t)
                     ELSE then.h,
                     LAMBDA partial :
                Bind(infertype(partial, node.alternate, supertype), LAMBDA alternate :
                Bind(ConditionalType(then.t, alternate.t), LAMBDA boundtype :
                [h |-> SetBoundtype(alternate.h, self, boundtype), t |-> boundtype])))))
         [] node.cls = "CallExpression" ->
                Bind(h.nodes[node.callee].boundtype, LAMBDA callee_type :
                Bind(IF TypeOf(callee_type) = "FUNCTION"
                     THEN TryInferArgs(h, node.args, callee_type.params, 1, <<>>)
                     ELSE InferArgs(h, node.args, <<>>),
                     LAMBDA args :
                Bind(infertype(args.h, node.callee, BoundFunctionType(args.ts, supertype)),
                     LAMBDA signature :
                Bind(IF TypeOf(signature.t) = "FUNCTION" THEN signature.t.return_type ELSE signature.t,
                     LAMBDA boundtype :
                [h |-> SetBoundtype(signature.h, self, boundtype), t |-> boundtype]))))
         [] node.cls = "FunctionExpression" ->
                Bind(lower(supertype, node.boundtype), LAMBDA lowered_signature :
                IF TypeOf(lowered_signature) = "FUNCTION"
                THEN Bind(InferParams(h, node.params, lowered_signature.params, 1), LAMBDA params :
                     Bind(infertype(params, node.body, lowered_signature.return_type), LAMBDA body :
                     Bind(BoundFunctionType(
                              [i \in 1..Len(node.params) |-> body.h.nodes[node.params[i]].boundtype],
                              IF lowers_any(body.t, lowered_signature.return_type)
                              THEN body.t ELSE lowered_signature.return_type),
                          LAMBDA boundtype :
                     [h |-> SetBoundtype(body.h, self, boundtype), t |-> boundtype])))
                ELSE [h |-> h, t |-> lowered_signature])
         [] node.cls = "LetExpression" ->
                Bind(IF node.binding # 0
                     THEN Bind(refresh_type(h, node.binding), LAMBDA refreshed :
                          Bind(infertype(refreshed, node.value, refreshed.nodes[node.binding].boundtype),
                               LAMBDA value :
                          infertype(value.h, node.binding, value.t).h))
                     ELSE infertype(h, node.value, BOUND_ANY_TYPE).h,
                     LAMBDA bound :
                Bind(infertype(bound, node.next, supertype), LAMBDA next_ :
                [h |-> SetBoundtype(next_.h, self, next_.t), t |-> next_.t]))

-----------------------------------------------------------------------------
(* Validation: Expression.typecheck of every class.  A raise of TypeError    *)
(* ends the walk with h.err = "TypeError".                                   *)

TypeCheckExpression(type_, scope, value, parent) ==
    [cls |-> "TypeCheckExpression", boundtype |-> type_, parent |-> parent, scope |-> scope,
     value |-> value]

\* new = TypeCheckExpression(type_, self.scope, value=self.<field>, parent=self);
\* self.<field>.parent = new; self.<field> = new
InsertTypeCheck(h, self, field, type_) ==
    Bind(h.nodes[self][field], LAMBDA operand :
    Bind(New(h, TypeCheckExpression(type_, h.nodes[self].scope, operand, self)), LAMBDA made :
    [SetParent(made.h, operand, made.id) EXCEPT !.nodes[self][field] = made.id]))

\* the keys of _BINOP_SYMBOL, by the operator's name in the syntax tree: DIV has no symbol
BINOP_SYMBOL == {"Add", "Sub", "Mul", "Rem", "Lt", "Lte", "Gt", "Gte", "Eq", "Neq", "And", "Or"}

\* raise TypeError(f"'{self.op}' can be applied between ..."): BinaryOperator.__str__ looks
\* the operator up in _BINOP_SYMBOL while the message is formatted
RaiseOperandError(h, self) ==
    RaiseAt(h, IF h.nodes[self].op \in BINOP_SYMBOL THEN "TypeError" ELSE "KeyError", self)

\* the boundtype of the child that self.<field> names
FieldType(h, self, field) == h.nodes[h.nodes[self][field]].boundtype

\* the operand test of Arithmetic-, NumericComparison- and BooleanExpression.typecheck
OperandRejected(h, self, kind) ==
    \/ is_static(FieldType(h, self, "left")) /\ TypeOf(FieldType(h, self, "left")) # kind
    \/ is_static(FieldType(h, self, "right")) /\ TypeOf(FieldType(h, self, "right")) # kind

\* an operand that is never given its runtime check
CheckUnlessKind_never(h, self, field, type_) == h

\* if self.<field>.boundtype.type != type_.type: insert the runtime check
CheckUnlessKind(h, self, field, type_) ==
    IF TypeOf(FieldType(h, self, field)) # TypeOf(type_)
    THEN InsertTypeCheck(h, self, field, type_) ELSE h

\* if not self.<field>.boundtype.is_static: insert the runtime check
CheckUnlessStatic(h, self, field, type_) ==
    IF ~is_static(FieldType(h, self, field))
    THEN InsertTypeCheck(h, self, field, type_) ELSE h

\* one arm of EqualsExpression.typecheck: `known` has the kind of type_, `other` is tested
EqualsArm(h, self, other, type_) ==
    IF is_static(FieldType(h, self, other)) /\ TypeOf(FieldType(h, self, other)) # TypeOf(type_)
    THEN RaiseOperandError(h, self)
    ELSE CheckUnlessStatic(h, self, other, type_)

\* the if/elif chain of EqualsExpression.typecheck, after the operands' typecheck
EqualsCheck(h, self) ==
    Bind(FieldType(h, self, "left"), LAMBDA left :
    Bind(FieldType(h, self, "right"), LAMBDA right :
    IF TypeOf(left) = "BOOLEAN" THEN EqualsArm(h, self, "right", BOUND_BOOLEAN_TYPE)
    ELSE IF TypeOf(right) = "BOOLEAN" THEN EqualsArm(h, self, "left", BOUND_BOOLEAN_TYPE)
    ELSE IF TypeOf(left) = "INTEGER" THEN EqualsArm(h, self, "right", BOUND_INTEGER_TYPE)
    ELSE IF TypeOf(right) = "INTEGER" THEN EqualsArm(h, self, "left", BOUND_INTEGER_TYPE)
    ELSE IF TypeOf(left) = "STRING" THEN EqualsArm(h, self, "right", BOUND_STRING_TYPE)
    ELSE IF TypeOf(right) = "STRING" THEN EqualsArm(h, self, "left", BOUND_STRING_TYPE)
    ELSE IF is_static(left) \/ is_static(right) THEN RaiseOperandError(h, self)
    ELSE h))

\* the test of ConcatenateExpression.typecheck
ConcatenateRejected(h, self) ==
    \/ /\ is_static(FieldType(h, self, "left"))
       /\ TypeOf(lower(BINOP_ADD_TYPES, FieldType(h, self, "left"))) = "UNDEFINED"
    \/ /\ is_static(FieldType(h, self, "right"))
       /\ TypeOf(lower(BINOP_ADD_TYPES, FieldType(h, self, "right"))) = "UNDEFINED"

\* the test of FunctionExpression.typecheck on the body's type and self.boundtype.return_type
FunctionRejected(body, return_type) == is_static(body) /\ ~lowers_any(body, return_type)

\* the kind the operands of a Binary class must have
OperandType(cls) == IF cls = "BooleanExpression" THEN BOUND_BOOLEAN_TYPE ELSE BOUND_INTEGER_TYPE

RECURSIVE typecheck(_, _), TypecheckEach(_, _)

\* for arg in self.args: arg.typecheck()
TypecheckEach(h, ns) ==
    IF Len(ns) = 0 THEN h ELSE TypecheckEach(typecheck(h, Head(ns)), Tail(ns))

\* Expression.typecheck as each class overrides it: the heap after the call
typecheck(h, self) ==
    LET node == h.nodes[self]
    IN IF h.err # "none" THEN h
       ELSE CASE node.cls \in {"LiteralBooleanValue", "LiteralIntegerValue", "LiteralStringValue",
                               "ReferenceExpression", "TypeCheckExpression"} -> h
         [] node.cls = "ConcatenateExpression" ->
                Bind(typecheck(typecheck(h, node.left), node.right), LAMBDA h1 :
                IF h1.err # "none" THEN h1
                ELSE IF ConcatenateRejected(h1, self) THEN RaiseAt(h1, "TypeError", self)
                ELSE h1)
         [] node.cls \in {"ArithmeticExpression", "NumericComparisonExpression", "BooleanExpression"} ->
                Bind(typecheck(typecheck(h, node.left), node.right), LAMBDA h1 :
                IF h1.err # "none" THEN h1
                ELSE IF OperandRejected(h1, self, TypeOf(OperandType(node.cls)))
                THEN RaiseOperandError(h1, self)
                ELSE CheckUnlessKind(CheckUnlessKind(h1, self, "left", OperandType(node.cls)),
                                     self, "right", OperandType(node.cls)))
         [] node.cls = "EqualsExpression" ->
                Bind(typecheck(typecheck(h, node.left), node.right), LAMBDA h1 :
                IF h1.err # "none" THEN h1 ELSE EqualsCheck(h1, self))
         [] node.cls = "PrintExpression" -> typecheck(h, node.value)
         [] node.cls = "TupleExpression" -> typecheck(typecheck(h, node.first), node.second)
         [] node.cls \in {"FirstExpression", "SecondExpression"} ->
                Bind(typecheck(h, node.value), LAMBDA h1 :
                IF h1.err # "none" THEN h1
                ELSE IF is_static(FieldType(h1, self, "value"))
                        /\ TypeOf(FieldType(h1, self, "value")) # "TUPLE"
                THEN RaiseAt(h1, "TypeError", self)
                ELSE CheckUnlessStatic(h1, self, "value", BOUND_TUPLE_TYPE))
         [] node.cls = "ConditionalExpression" ->
                Bind(typecheck(typecheck(typecheck(h, node.cond), node.then), node.alternate),
                     LAMBDA h1 :
                IF h1.err # "none" THEN h1
                ELSE IF is_static(FieldType(h1, self, "cond"))
                        /\ TypeOf(FieldType(h1, self, "cond")) # "BOOLEAN"
                THEN RaiseAt(h1, "TypeError", self)
                ELSE CheckUnlessStatic(h1, self, "cond", BOUND_BOOLEAN_TYPE))
         [] node.cls = "CallExpression" -> TypecheckEach(typecheck(h, node.callee), node.args)
         [] node.cls = "FunctionExpression" ->
                Bind(typecheck(h, node.body), LAMBDA h1 :
                IF h1.err # "none" THEN h1
                ELSE IF FunctionRejected(FieldType(h1, self, "body"), node.boundtype.return_type)
                THEN RaiseAt(h1, "TypeError", self)
                ELSE IF is_static(node.boundtype.return_type)
                        /\ ~is_static(FieldType(h1, self, "body"))
                THEN InsertTypeCheck(h1, self, "body", node.boundtype.return_type)
                ELSE h1)
         [] node.cls = "LetExpression" -> typecheck(typecheck(h, node.value), node.next)

-----------------------------------------------------------------------------
(* Code generation (src/coral/compiler.py).  A CoralFunctionCompilation is   *)
(* the record c: its locals map, its GC list, the runtime calls its builder  *)
(* has emitted (c.ops, each <<function, result value, arguments>>), the      *)
(* number of SSA values made so far and the exception that ended the        *)
(* compilation.  An ir.Value is a positive number, 0 the values the         *)
(* generator never passes to the runtime.                                    *)

NoObject == [cls |-> "None"]

\* CoralObject.__init__ and the subclasses' (CoralTuple adds first and second)
CoralObject(type_, value, boxed) ==
    [cls |-> "CoralObject", boundtype |-> type_, value |-> value, boxed |-> boxed,
     first |-> NoObject, second |-> NoObject]

CoralInteger(type_, value, boxed) ==
    [cls |-> "CoralInteger", boundtype |-> type_, value |-> value, boxed |-> boxed,
     first |-> NoObject, second |-> NoObject]

CoralString(type_, value, boxed) ==
    [cls |-> "CoralString", boundtype |-> type_, value |-> value, boxed |-> boxed,
     first |-> NoObject, second |-> NoObject]

CoralTuple(type_, value, boxed, first, second) ==
    [cls |-> "CoralTuple", boundtype |-> type_, value |-> value, boxed |-> boxed,
     first |-> first, second |-> second]

\* a CoralFunction wrapped from memory: its CoralFunctionType has no llfunc
CoralFunction(type_, value, boxed) ==
    [cls |-> "CoralFunction", boundtype |-> type_, value |-> value, boxed |-> boxed,
     first |-> NoObject, second |-> NoObject]

\* CoralFunctionCompilation.__init__: gc_alloc is the call of CRObjectArray_new in the entry
\* block, gc_size the constant it is given, gc_ptr whether self._gc_ptr is set
CoralFunctionCompilation(returns_boxed) ==
    [vars |-> <<>>, gc_objects |-> <<>>, ops |-> <<>>, values |-> 0,
     gc_alloc |-> TRUE, gc_size |-> 0, gc_ptr |-> TRUE,
     returns_boxed |-> returns_boxed, err |-> "none"]

\* an exception raised while compiling
Fail(c, e) == IF c.err = "none" THEN [c EXCEPT !.err = e] ELSE c

\* an instruction that is no runtime call (shl, or, inttoptr, load, bitcast): a new value
Instruction(c) == [c |-> [c EXCEPT !.values = @ + 1], value |-> c.values + 1]

\* scope.builder.call(fn, args): the call is emitted, its result is a new value
BuilderCall(c, fn, args) ==
    [c |-> [c EXCEPT !.values = @ + 1, !.ops = Append(@, <<fn, c.values + 1, args>>)],
     value |-> c.values + 1]

\* CoralFunctionCompilation.collect_object; objects in _gc_objects are told apart by their value
collect_object(c, obj) ==
    IF c.err = "none" /\ obj.boxed
       /\ ~\E i \in 1..Len(c.gc_objects) : c.gc_objects[i].value = obj.value
    THEN [c |-> [c EXCEPT !.ops = Append(@, <<"CRObjectArray_push", 0, <<obj.value>>>>),
                          !.gc_objects = Append(@, obj)],
          obj |-> obj]
    ELSE [c |-> c, obj |-> obj]

\* CoralFunctionCompilation.add_local_var
add_local_var(c, name, value) ==
    IF DictHas(c.vars, name) THEN Fail(c, "ValueError") ELSE [c EXCEPT !.vars = DictSet(@, name, value)]

\* CoralFunctionCompilation.get_var
get_var(c, name) ==
    IF DictHas(c.vars, name) THEN [c |-> c, obj |-> DictGet(c.vars, name)]
    ELSE [c |-> Fail(c, "ValueError"), obj |-> NoObject]

\* CoralFunctionCompilation.handle_gc_cleanup
handle_gc_cleanup(c) ==
    IF c.err # "none" THEN c
    ELSE IF ~c.gc_ptr THEN Fail(c, "ValueError")
    ELSE IF Len(c.gc_objects) > 0
    THEN [c EXCEPT !.ops = Append(@, <<"CRObjectArray_release", 0, <<>>>>)]
    ELSE c

\* a finalization that leaves the placeholder size of the list
handle_gc_finalization_unsized(c) ==
    IF c.err = "none" THEN [c EXCEPT !.gc_ptr = FALSE, !.gc_objects = <<>>] ELSE c

\* CoralFunctionCompilation.handle_gc_finalization
handle_gc_finalization(c) ==
    IF c.err # "none" THEN c
    ELSE [c EXCEPT !.gc_size = IF Len(c.gc_objects) > 0 THEN Len(c.gc_objects) ELSE @,
                   !.gc_alloc = Len(c.gc_objects) > 0,
                   !.gc_ptr = FALSE,
                   !.gc_objects = <<>>]

\* builder.ret(value)
ret(c) == IF c.err = "none" THEN [c EXCEPT !.ops = Append(@, <<"ret", 0, <<>>>>)] ELSE c

RECURSIVE box(_, _)
\* CoralObject.box and its overrides in CoralInteger, CoralString and CoralTuple: [c, obj]
box(c, self) ==
    IF c.err # "none" \/ self.boxed THEN [c |-> c, obj |-> self]
    ELSE CASE self.cls = "CoralInteger" ->
                 IF TypeOf(self.boundtype) \in {"INTEGER", "BOOLEAN"}
                 THEN Bind(Instruction(c), LAMBDA tagged :
                      [c |-> tagged.c, obj |-> CoralInteger(self.boundtype, tagged.value, TRUE)])
                 ELSE [c |-> Fail(c, "TypeError"), obj |-> self]
           [] self.cls = "CoralString" ->
                 Bind(BuilderCall(c, "CRString_new", <<>>), LAMBDA made :
                 collect_object(made.c, CoralString(BOUND_STRING_TYPE, made.value, TRUE)))
           [] self.cls = "CoralTuple" ->
                 Bind(box(c, self.first), LAMBDA first :
                 Bind(box(first.c, self.second), LAMBDA second :
                 IF second.c.err # "none" THEN [c |-> second.c, obj |-> self]
                 ELSE Bind(BuilderCall(second.c, "CRTuple_new", <<first.obj.value, second.obj.value>>),
                           LAMBDA made :
                      collect_object(made.c,
                                     CoralTuple(self.boundtype, made.value, TRUE, NoObject, NoObject)))))
           [] OTHER -> [c |-> Fail(c, "NotImplementedError"), obj |-> self]

\* CoralObject.incref, an empty method in CoralInteger
incref(c, self) ==
    IF c.err = "none" /\ self.boxed /\ self.cls # "CoralInteger"
    THEN [c EXCEPT !.ops = Append(@, <<"CRObject_incref", 0, <<self.value>>>>)]
    ELSE c

\* CoralObject.print: the boxed value is printed, the object itself returned
CoralObject_print(c, self) ==
    Bind(box(c, self), LAMBDA boxed :
    [c |-> IF boxed.c.err # "none" THEN boxed.c
           ELSE [boxed.c EXCEPT !.ops = Append(@, <<"CRObject_print", 0, <<boxed.obj.value>>>>)],
     obj |-> self])

\* CoralObject.wrap_boxed_value
wrap_boxed_value(boundtype, value) ==
    CASE TypeOf(boundtype) \in {"INTEGER", "BOOLEAN"} -> CoralInteger(boundtype, value, TRUE)
      [] TypeOf(boundtype) = "STRING" -> CoralString(boundtype, value, TRUE)
      [] TypeOf(boundtype) = "TUPLE" -> CoralTuple(boundtype, value, TRUE, NoObject, NoObject)
      [] TypeOf(boundtype) = "FUNCTION" -> CoralFunction(boundtype, value, TRUE)
      [] OTHER -> CoralObject(BOUND_UNDEFINED_TYPE, value, TRUE)

\* CoralTuple.create_unboxed
create_unboxed(first, second) ==
    CoralTuple(BoundType("TUPLE", <<first.boundtype, second.boundtype>>), 0, FALSE, first, second)

\* CoralTuple.instance_get_first / instance_get_second (member 1 or 2): the member object of
\* an unboxed tuple, a raw load (CoralRuntime.get_tuple_first) from a boxed one
instance_get(c, self, member) ==
    IF ~self.boxed THEN [c |-> c, obj |-> IF member = 1 THEN self.first ELSE self.second]
    ELSE Bind([c EXCEPT !.values = @ + 1,
                        !.ops = Append(@, <<"load", c.values + 1, <<self.value, member>>>>)],
              LAMBDA loaded :
         [c |-> loaded, obj |-> wrap_boxed_value(self.boundtype.generics[member], loaded.values)])

\* CoralTuple.get_first / get_second
get_member(c, value, member) ==
    IF c.err # "none" THEN [c |-> c, obj |-> value]
    ELSE IF TypeOf(value.boundtype) = "TUPLE" THEN instance_get(c, value, member)
    ELSE IF TypeOf(value.boundtype) \notin {"UNDEFINED", "ANY"}
    THEN [c |-> Fail(c, "TypeError"), obj |-> value]
    ELSE Bind(box(c, value), LAMBDA boxed :
         Bind(BuilderCall(boxed.c, IF member = 1 THEN "CRTuple_getFirst" ELSE "CRTuple_getSecond",
                          <<boxed.obj.value>>), LAMBDA got :
         [c |-> got.c, obj |-> CoralObject(BOUND_UNDEFINED_TYPE, got.value, TRUE)]))

RECURSIVE BoxArgs(_, _, _)
\* for arg in args: arg = arg.box(); arg.incref(); varargs.append(arg.value): [c, varargs]
BoxArgs(c, args, varargs) ==
    IF Len(args) = 0 THEN [c |-> c, varargs |-> varargs]
    ELSE Bind(box(c, Head(args)), LAMBDA arg :
         BoxArgs(incref(arg.c, arg.obj), Tail(args), Append(varargs, arg.obj.value)))

\* CoralFunction.call when the call is dispatched through CRFunction_call: the callee's
\* bound type is no Function type, or it is one whose llfunc is None (the only
\* CoralFunction objects made outside _compile_function are those of wrap_boxed_value)
CoralFunction_call(c, callee, args, tail) ==
    Bind(box(c, callee), LAMBDA boxed :
    Bind(BoxArgs(incref(boxed.c, boxed.obj), args, <<>>), LAMBDA passed :
    Bind(BuilderCall(IF tail THEN handle_gc_cleanup(passed.c) ELSE passed.c,
                     IF tail THEN "musttail CRFunction_call" ELSE "CRFunction_call",
                     <<boxed.obj.value>> \o passed.varargs), LAMBDA called :
    Bind(IF TypeOf(callee.boundtype) # "FUNCTION"
         THEN CoralObject(BOUND_UNDEFINED_TYPE, called.value, TRUE)
         ELSE wrap_boxed_value(callee.boundtype.return_type, called.value), LAMBDA return_value :
    IF tail THEN [c |-> called.c, obj |-> return_value]
    ELSE collect_object(called.c, return_value)))))

\* CoralFunctionCompilation.handle_return_with_value of a scope that does not return boxed
\* values: main's result type is the IR type of an unboxed Integer
handle_return_with_value(c, result) ==
    IF c.err # "none" THEN [c |-> c, obj |-> result]
    ELSE IF c.returns_boxed
    THEN Bind(box(c, result), LAMBDA boxed :
         [c |-> ret(handle_gc_cleanup(incref(boxed.c, boxed.obj))), obj |-> boxed.obj])
    ELSE IF result.cls = "CoralInteger" /\ ~result.boxed /\ TypeOf(result.boundtype) = "INTEGER"
    THEN [c |-> ret(handle_gc_cleanup(c)), obj |-> result]
    ELSE [c |-> Fail(c, "TypeError"), obj |-> result]

\* if is_return_branch: return scope.handle_return_with_value(obj); return obj
Returned(made, is_return_branch) ==
    IF is_return_branch THEN handle_return_with_value(made.c, made.obj) ELSE made

\* the classes whose case in _compile_node stands before `case ast.BinaryExpression()`
CompiledClasses ==
    {"ReferenceExpression", "LiteralIntegerValue", "LiteralBooleanValue", "LiteralStringValue",
     "TupleExpression", "CallExpression", "FirstExpression", "SecondExpression", "PrintExpression"}

RECURSIVE _compile_node(_, _, _, _), CompileArgs(_, _, _, _), _compile_function_call(_, _, _, _)

\* [self._compile_node(arg, scope, is_return_branch=False) for arg in node.args]: [c, objs]
CompileArgs(c, h, args, done) ==
    IF Len(args) = 0 THEN [c |-> c, objs |-> done]
    ELSE Bind(_compile_node(c, h, Head(args), FALSE), LAMBDA arg :
         CompileArgs(arg.c, h, Tail(args), Append(done, arg.obj)))

\* CoralCompiler._compile_function_call.  In return position a Function-typed callee
\* without llfunc raises TypeError in a scope that does not return boxed values, and
\* otherwise reads `callee.function_type.llfunc.ftype` of None: AttributeError.
_compile_function_call(c, h, self, is_return_branch) ==
    Bind(_compile_node(c, h, h.nodes[self].callee, FALSE), LAMBDA callee :
    Bind(CompileArgs(callee.c, h, h.nodes[self].args, <<>>), LAMBDA callargs :
    IF callargs.c.err # "none" THEN [c |-> callargs.c, obj |-> NoObject]
    ELSE IF is_return_branch /\ TypeOf(callee.obj.boundtype) = "FUNCTION"
    THEN [c |-> Fail(callargs.c, IF ~callargs.c.returns_boxed THEN "TypeError" ELSE "AttributeError"),
          obj |-> NoObject]
    ELSE Returned(CoralFunction_call(callargs.c, callee.obj, callargs.objs, FALSE), is_return_branch)))

\* CoralCompiler._compile_node on node `self` of the typed AST h: [c, obj].  The cases are
\* tried in the order of the match statement; coral.ast defines no BinaryExpression, so
\* for a node of any later class (the five Binary classes, ConditionalExpression,
\* FunctionExpression, LetExpression, TypeCheckExpression) evaluating the pattern
\* `ast.BinaryExpression()` raises AttributeError.
_compile_node(c, h, self, is_return_branch) ==
    LET node == h.nodes[self]
    IN IF c.err # "none" THEN [c |-> c, obj |-> NoObject]
       ELSE CASE node.cls = "ReferenceExpression" ->
                    Returned(get_var(c, h.vars[node.var].name), is_return_branch)
              [] node.cls = "LiteralIntegerValue" ->
                    Returned([c |-> c, obj |-> CoralInteger(BOUND_INTEGER_TYPE, 0, FALSE)],
                             is_return_branch)
              [] node.cls = "LiteralBooleanValue" ->
                    Returned([c |-> c, obj |-> CoralInteger(BOUND_BOOLEAN_TYPE, 0, FALSE)],
                             is_return_branch)
              [] node.cls = "LiteralStringValue" ->
                    Returned(box(c, CoralString(BOUND_STRING_TYPE, 0, FALSE)), is_return_branch)
              [] node.cls = "TupleExpression" ->
                    Bind(_compile_node(c, h, node.first, FALSE), LAMBDA first :
                    Bind(_compile_node(first.c, h, node.second, FALSE), LAMBDA second :
                    IF second.c.err # "none" THEN [c |-> second.c, obj |-> NoObject]
                    ELSE Returned(IF ~is_static(node.boundtype)
                                  THEN box(second.c, create_unboxed(first.obj, second.obj))
                                  ELSE [c |-> second.c, obj |-> create_unboxed(first.obj, second.obj)],
                                  is_return_branch)))
              [] node.cls = "CallExpression" -> _compile_function_call(c, h, self, is_return_branch)
              [] node.cls \in {"FirstExpression", "SecondExpression"} ->
                    Bind(_compile_node(c, h, node.value, FALSE), LAMBDA value :
                    IF value.c.err # "none" THEN [c |-> value.c, obj |-> NoObject]
                    ELSE Returned(get_member(value.c, value.obj,
                                             IF node.cls = "FirstExpression" THEN 1 ELSE 2),
                                  is_return_branch))
              [] node.cls = "PrintExpression" ->
                    Bind(_compile_node(c, h, node.value, FALSE), LAMBDA value :
                    IF value.c.err # "none" THEN [c |-> value.c, obj |-> NoObject]
                    ELSE Returned(CoralObject_print(value.c, value.obj), is_return_branch))
              [] OTHER -> [c |-> Fail(c, "AttributeError"), obj |-> NoObject]

\* CoralCompiler.compile_ir: main's scope, the body, the cleanup of main's GC list, its
\* finalization, main_builder.ret(LL_INT(0))
compile_ir(h) ==
    ret(handle_gc_finalization(handle_gc_cleanup(
        _compile_node(CoralFunctionCompilation(FALSE), h, h.root, FALSE).c)))

-----------------------------------------------------------------------------
(* The runtime library the emitted calls run on.  The repository's sources    *)
(* only declare its functions (CoralRuntime.import_into); it is modelled     *)
(* from the ownership convention of the specification: a constructor         *)
(* returns an Object of refcount 1, CRTuple_new takes over one reference of  *)
(* each member (the tuple gives them back when it is freed), a decref that  *)
(* reaches zero frees, CRObjectArray_release decrements each element.        *)
(* An Object's identity is the IR value of the call that allocated it; m.ptr *)
(* maps every IR value to its Object, 0 for tagged immediates.               *)

\* struct Object as a constructor returns it
Object(type_, first, second) == [type |-> type_, refcount |-> 1, first |-> first, second |-> second]

\* the process at the entry of main: nothing allocated, an empty ObjectArray
Memory(values) ==
    [ptr |-> [v \in 1..values |-> 0], heap |-> [v \in 1..values |-> [type |-> "none"]],
     objarr |-> <<>>, below |-> FALSE, err |-> "none"]

\* void CRObject_incref(Object*): nothing for a tagged immediate
CRObject_incref(m, o) == IF o = 0 THEN m ELSE [m EXCEPT !.heap[o].refcount = @ + 1]

RECURSIVE CRObject_decref(_, _)
\* void CRObject_decref(Object*): at zero the Object is freed, a freed tuple releases its
\* members; m.below records a decrement of an Object whose refcount is already 0
CRObject_decref(m, o) ==
    IF o = 0 THEN m
    ELSE IF m.heap[o].refcount = 0 THEN [m EXCEPT !.below = TRUE]
    ELSE IF m.heap[o].refcount > 1 THEN [m EXCEPT !.heap[o].refcount = @ - 1]
    ELSE Bind([m EXCEPT !.heap[o].refcount = 0], LAMBDA freed :
         IF m.heap[o].type = "Tuple"
         THEN CRObject_decref(CRObject_decref(freed, m.heap[o].first), m.heap[o].second)
         ELSE freed)

RECURSIVE CRObjectArray_release(_, _)
\* void CRObjectArray_release(ObjectArray*): each element is decremented, in push order
CRObjectArray_release(m, objects) ==
    IF Len(objects) = 0 THEN [m EXCEPT !.objarr = <<>>]
    ELSE CRObjectArray_release(CRObject_decref(m, Head(objects)), Tail(objects))

\* Object* CRTuple_getFirst(Object*) / CRTuple_getSecond: the member with one more reference;
\* a dynamic error when the argument is no tuple
CRTuple_get(m, v, o, member) ==
    IF o = 0 \/ m.heap[o].type # "Tuple" THEN [m EXCEPT !.err = "RuntimeError"]
    ELSE Bind(IF member = 1 THEN m.heap[o].first ELSE m.heap[o].second, LAMBDA got :
         CRObject_incref([m EXCEPT !.ptr[v] = got], got))

\* one emitted operation <<function, result, arguments>>.  CRFunction_new is never emitted
\* by the cases _compile_node reaches, so the callee of CRFunction_call is never a Function
\* Object: a dynamic error.
Step(m, op) ==
    LET fn == op[1]
        v == op[2]
        args == op[3]
    IN CASE fn = "CRString_new" -> [m EXCEPT !.ptr[v] = v, !.heap[v] = Object("String", 0, 0)]
         [] fn = "CRTuple_new" ->
               [m EXCEPT !.ptr[v] = v, !.heap[v] = Object("Tuple", m.ptr[args[1]], m.ptr[args[2]])]
         [] fn = "CRTuple_getFirst" -> CRTuple_get(m, v, m.ptr[args[1]], 1)
         [] fn = "CRTuple_getSecond" -> CRTuple_get(m, v, m.ptr[args[1]], 2)
         [] fn = "load" ->
               Bind(m.heap[m.ptr[args[1]]], LAMBDA tuple_ :
               [m EXCEPT !.ptr[v] = IF args[2] = 1 THEN tuple_.first ELSE tuple_.second])
         [] fn = "CRObject_incref" -> CRObject_incref(m, m.ptr[args[1]])
         [] fn = "CRObject_print" -> m
         [] fn = "CRObjectArray_push" -> [m EXCEPT !.objarr = Append(@, m.ptr[args[1]])]
         [] fn = "CRObjectArray_release" -> CRObjectArray_release(m, m.objarr)
         [] fn \in {"CRFunction_call", "musttail CRFunction_call"} -> [m EXCEPT !.err = "RuntimeError"]
         [] fn = "ret" -> m

RECURSIVE Run(_, _)
\* main from its entry to its `ret`, or to the dynamic error that ends the process
Run(m, ops) ==
    IF Len(ops) = 0 \/ m.err # "none" THEN m ELSE Run(Step(m, Head(ops)), Tail(ops))

-----------------------------------------------------------------------------
(* SpecLattice: union and lower applied to every pair of a bounded set of  *)
(* types.                                                                  *)

MaxArity == 2

NoType == [cls |-> "None"]

Atoms == {BOUND_ANY_TYPE, BOUND_UNDEFINED_TYPE, BOUND_BOOLEAN_TYPE, BOUND_INTEGER_TYPE,
          BOUND_STRING_TYPE}

TupleTypes == {BoundType("TUPLE", <<a, b>>) : a, b \in Atoms}

SignatureAtoms == {BOUND_ANY_TYPE, BOUND_INTEGER_TYPE, BOUND_STRING_TYPE}

FunctionTypes ==
    UNION {{BoundFunctionType(p, r) : p \in [1..n -> SignatureAtoms], r \in SignatureAtoms} :
           n \in 0..MaxArity}

\* unions of two or more members of distinct kinds, in the order Python would insert them
ScalarMembers == {<<>>, <<BOUND_BOOLEAN_TYPE>>, <<BOUND_INTEGER_TYPE>>, <<BOUND_STRING_TYPE>>,
                  <<BOUND_BOOLEAN_TYPE, BOUND_INTEGER_TYPE>>, <<BOUND_INTEGER_TYPE, BOUND_STRING_TYPE>>,
                  <<BOUND_STRING_TYPE, BOUND_BOOLEAN_TYPE>>,
                  <<BOUND_BOOLEAN_TYPE, BOUND_INTEGER_TYPE, BOUND_STRING_TYPE>>}

TupleMembers == {<<>>, <<BOUND_TUPLE_TYPE>>,
                 <<BoundType("TUPLE", <<BOUND_INTEGER_TYPE, BOUND_INTEGER_TYPE>>)>>}

FunctionMembers == {<<>>, <<BoundFunctionType(<<>>, BOUND_INTEGER_TYPE)>>}

UnionTypes ==
    {for_members(m) :
        m \in {n \in {s \o t \o f : s \in ScalarMembers, t \in TupleMembers, f \in FunctionMembers} :
                 Len(n) >= 2}}

\* operands nested one level deeper
Nested == {BoundType("TUPLE", <<BOUND_INTEGER_TYPE, BOUND_INTEGER_TYPE>>),
           BoundFunctionType(<<BOUND_INTEGER_TYPE>>, BOUND_INTEGER_TYPE),
           for_members(<<BOUND_INTEGER_TYPE, BOUND_STRING_TYPE>>)}

NestedTypes ==
    {BoundType("TUPLE", <<n, BOUND_INTEGER_TYPE>>) : n \in Nested}
    \cup {BoundType("TUPLE", <<BOUND_ANY_TYPE, n>>) : n \in Nested}
    \cup {BoundFunctionType(<<n>>, BOUND_ANY_TYPE) : n \in Nested}
    \cup {BoundFunctionType(<<>>, n) : n \in Nested}

Types == Atoms \cup TupleTypes \cup FunctionTypes \cup UnionTypes \cup NestedTypes

LatticeIdle ==
    /\ lpc = "idle"
    /\ ta = NoType /\ tb = NoType
    /\ tu = NoType /\ tl = NoType /\ tuba = NoType /\ tlba = NoType
    /\ tlu = NoType /\ tul = NoType

ScopeIdle ==
    /\ spc = "idle"
    /\ scopes = <<>>
    /\ svars = <<>>
    /\ lastop = [op |-> "none"]

InferIdle ==
    /\ pc = "idle"
    /\ prog = 0
    /\ ast = <<>>
    /\ rounds = 0
    /\ code = <<>>
    /\ mem = <<>>

BoxIdle ==
    /\ bpc = "idle"
    /\ btype = "none"
    /\ bvalue = 0 /\ bword = 0 /\ bback = 0 /\ bagain = 0

LInit ==
    /\ lpc = "start"
    /\ ta \in Types
    /\ tb \in Types
    /\ tu = NoType /\ tl = NoType /\ tuba = NoType /\ tlba = NoType
    /\ tlu = NoType /\ tul = NoType
    /\ ScopeIdle
    /\ BoxIdle
    /\ InferIdle

\* A.union(B), A.lower(B) and the same with the operands exchanged
Combine ==
    /\ lpc = "start"
    /\ tu' = union(ta, tb)
    /\ tl' = lower(ta, tb)
    /\ tuba' = union(tb, ta)
    /\ tlba' = lower(tb, ta)
    /\ lpc' = "combined"
    /\ UNCHANGED <<ta, tb, tlu, tul, scvars, ivars, bvars>>

\* A.lower(A.union(B)) and A.union(A.lower(B))
Absorb ==
    /\ lpc = "combined"
    /\ tlu' = lower(ta, tu)
    /\ tul' = union(ta, tl)
    /\ lpc' = "absorbed"
    /\ UNCHANGED <<ta, tb, tu, tl, tuba, tlba, scvars, ivars, bvars>>

LNext == Combine \/ Absorb

SpecLattice == LInit /\ [][LNext]_vars

-----------------------------------------------------------------------------
(* Claims about union and lower, under SpecLattice.                        *)

RECURSIVE Mentions(_, _)
\* whether native type k occurs in t at any depth
Mentions(t, k) ==
    \/ TypeOf(t) = k
    \/ CASE t.cls = "BoundType" -> \E i \in 1..Len(t.generics) : Mentions(t.generics[i], k)
         [] t.cls = "BoundTypeUnion" -> \E i \in 1..Len(t.members) : Mentions(t.members[i].val, k)
         [] t.cls = "BoundFunctionType" ->
               \/ Mentions(t.return_type, k)
               \/ \E i \in 1..Len(t.params) : Mentions(t.params[i], k)
         [] OTHER -> FALSE

KeysOf(u) == {u.members[i].key : i \in 1..Len(u.members)}

\* C5: lower(A, union(A, B)) = A.  Stated for the operands in which Undefined
\* does not occur: an Undefined operand is absorbed by union by design
\* (IBoundType.union: "Union with UNDEFINED results in UNDEFINED"), so the
\* pairs left are those where only the code of union and lower decides.
C5_LowerOfUnion ==
    (lpc = "absorbed" /\ ~Mentions(ta, "UNDEFINED") /\ ~Mentions(tb, "UNDEFINED"))
        => eq(tlu, ta)

\* C6: union(A, lower(A, B)) = A.  Stated for the pairs whose lower(A, B)
\* holds no Undefined: an Undefined lower is absorbed by union by design.
C6_UnionOfLower ==
    (lpc = "absorbed" /\ ~Mentions(tl, "UNDEFINED")) => eq(tul, ta)

\* C7: union and lower are commutative under the types' equality, also for two
\* Union types with different member kinds.  Stated for operands in which
\* neither Any nor Undefined occurs, so that the absorbing elements play no part.
C7_Commutative ==
    (/\ lpc = "combined"
     /\ ~Mentions(ta, "ANY") /\ ~Mentions(ta, "UNDEFINED")
     /\ ~Mentions(tb, "ANY") /\ ~Mentions(tb, "UNDEFINED"))
        => (eq(tu, tuba) /\ eq(tl, tlba))

\* C8: two Function types of equal arity n combine into a Function type of
\* arity n, pointwise on parameters and return type, under union and under
\* lower; of different arity they give Undefined under both; two Tuple types
\* combine pointwise on their two operands.
C8_Pointwise ==
    lpc = "combined" =>
        /\ (TypeOf(ta) = "FUNCTION" /\ TypeOf(tb) = "FUNCTION" /\ Len(ta.params) = Len(tb.params)) =>
              /\ TypeOf(tu) = "FUNCTION" /\ TypeOf(tl) = "FUNCTION"
              /\ Len(tu.params) = Len(ta.params) /\ Len(tl.params) = Len(ta.params)
              /\ \A i \in 1..Len(ta.params) :
                    /\ eq(tu.params[i], union(ta.params[i], tb.params[i]))
                    /\ eq(tl.params[i], lower(ta.params[i], tb.params[i]))
              /\ eq(tu.return_type, union(ta.return_type, tb.return_type))
              /\ eq(tl.return_type, lower(ta.return_type, tb.return_type))
        /\ (TypeOf(ta) = "FUNCTION" /\ TypeOf(tb) = "FUNCTION" /\ Len(ta.params) # Len(tb.params)) =>
              (TypeOf(tu) = "UNDEFINED" /\ TypeOf(tl) = "UNDEFINED")
        /\ (TypeOf(ta) = "TUPLE" /\ TypeOf(tb) = "TUPLE") =>
              /\ TypeOf(tu) = "TUPLE" /\ TypeOf(tl) = "TUPLE"
              /\ \A i \in 1..2 :
                    /\ eq(tu.generics[i], union(ta.generics[i], tb.generics[i]))
                    /\ eq(tl.generics[i], lower(ta.generics[i], tb.generics[i]))

\* C9: the union of a Union type U with a Union or a concrete kind V is a Union
\* whose member kinds are exactly the kinds of U and of V together, a kind
\* present in both mapped to the union of the two members.
C9_UnionKeepsKinds ==
    (lpc = "combined" /\ TypeOf(ta) = "UNION" /\ TypeOf(tb) \notin {"ANY", "UNDEFINED"}) =>
        LET kindsB == IF TypeOf(tb) = "UNION" THEN KeysOf(tb) ELSE {TypeOf(tb)}
            memberB(k) == IF TypeOf(tb) = "UNION" THEN DictGet(tb.members, k) ELSE tb
        IN /\ TypeOf(tu) = "UNION"
           /\ KeysOf(tu) = KeysOf(ta) \cup kindsB
           /\ \A k \in KeysOf(ta) \cap kindsB :
                 eq(DictGet(tu.members, k), union(DictGet(ta.members, k), memberB(k)))

C17_NeverRejected == ta # NoType => ~FunctionRejected(ta, tb)

\* C26: lowers_any(A, B) is true exactly when lower(A, B) contains no Any at any nesting
\* depth: not as the result itself, not as a Tuple operand, not as a Function parameter
\* or return.
C26_LowersAny ==
    (lpc = "combined" /\ tl # TypeErrorRaised) => (lowers_any(ta, tb) <=> ~Mentions(tl, "ANY"))

\* one direction holds: when lower(A, B) is free of Any, lowers_any(A, B) is true
C26_AnyFreeLowers ==
    (lpc = "combined" /\ tl # TypeErrorRaised /\ ~Mentions(tl, "ANY")) => lowers_any(ta, tb)

-----------------------------------------------------------------------------
(* SpecScope: any sequence of Scope(parent), declare and get calls on a     *)
(* bounded tree of scopes.                                                  *)

MaxScopes == 3

MaxCalls == 5

Names == {"x", "y"}

DeclaredTypes == {BOUND_ANY_TYPE, BOUND_INTEGER_TYPE}

ScopeHeap == [scopes |-> scopes, vars |-> svars]

SInit ==
    /\ spc = "run"
    /\ scopes = <<[parent |-> 0, locals |-> <<>>, globals |-> <<>>]>>
    /\ svars = <<>>
    /\ lastop = [op |-> "new", scope |-> 1, name |-> "", var |-> 0, err |-> "none", calls |-> 0]
    /\ LatticeIdle
    /\ InferIdle
    /\ BoxIdle

\* Scope(parent)
NewScope(parent) ==
    /\ spc = "run"
    /\ Len(scopes) < MaxScopes
    /\ lastop.calls < MaxCalls
    /\ scopes' = Scope(ScopeHeap, parent).scopes
    /\ lastop' = [op |-> "new", scope |-> Len(scopes) + 1, name |-> "", var |-> 0, err |-> "none",
                  calls |-> lastop.calls + 1]
    /\ UNCHANGED <<spc, svars, lvars, ivars, bvars>>

\* scope.declare(name, type_)
Declare(self, name, type_) ==
    /\ spc = "run"
    /\ lastop.calls < MaxCalls
    /\ LET r == Scope_declare(ScopeHeap, self, name, type_)
       IN /\ scopes' = r.h.scopes
          /\ svars' = r.h.vars
          /\ lastop' = [op |-> "declare", scope |-> self, name |-> name, var |-> r.var, err |-> r.err,
                        calls |-> lastop.calls + 1]
    /\ UNCHANGED <<spc, lvars, ivars, bvars>>

\* scope.get(name)
Get(self, name) ==
    /\ spc = "run"
    /\ lastop.calls < MaxCalls
    /\ LET r == Scope_get(ScopeHeap, self, name)
       IN /\ scopes' = r.h.scopes
          /\ svars' = r.h.vars
          /\ lastop' = [op |-> "get", scope |-> self, name |-> name, var |-> r.var, err |-> r.err,
                        calls |-> lastop.calls + 1]
    /\ UNCHANGED <<spc, lvars, ivars, bvars>>

SNext ==
    \/ \E parent \in 1..Len(scopes) : NewScope(parent)
    \/ \E self \in 1..Len(scopes), name \in Names, type_ \in DeclaredTypes : Declare(self, name, type_)
    \/ \E self \in 1..Len(scopes), name \in Names : Get(self, name)

SpecScope == SInit /\ [][SNext]_vars

\* C10: declare(name, type) on a scope whose locals already hold name fails with
\* the "already defined" error and leaves the locals of that scope, their
\* indices and their types as they were; on a scope whose locals do not hold
\* name it succeeds, whatever the scope's ancestors declare.
C10_Redeclaration ==
    [][lastop'.op = "declare" =>
          IF DictHas(scopes[lastop'.scope].locals, lastop'.name)
          THEN lastop'.err = "SyntaxError" /\ scopes' = scopes /\ svars' = svars
          ELSE /\ lastop'.err = "none"
               /\ DictHas(scopes'[lastop'.scope].locals, lastop'.name)
               /\ \A i \in 1..Len(svars) : svars'[i] = svars[i]
               /\ \A i \in 1..Len(scopes[lastop'.scope].locals) :
                     scopes'[lastop'.scope].locals[i] = scopes[lastop'.scope].locals[i]]_vars

\* a redeclaration has just failed in a scope that shadows a name of its parent
C10_Witness ==
    /\ lastop.op = "declare"
    /\ lastop.err = "SyntaxError"
    /\ scopes[lastop.scope].parent # 0
    /\ DictHas(scopes[scopes[lastop.scope].parent].locals, lastop.name)
    /\ DictHas(scopes[lastop.scope].locals, lastop.name)

RECURSIVE Ancestors(_, _)
\* the proper ancestors of scope s in the scope tree sc
Ancestors(sc, s) ==
    IF sc[s].parent = 0 THEN {} ELSE {sc[s].parent} \cup Ancestors(sc, sc[s].parent)

\* the scopes on the path from s up to but excluding its ancestor d
PathBelow(sc, s, d) == ({s} \cup Ancestors(sc, s)) \ ({d} \cup Ancestors(sc, d))

\* C11: a resolve (Scope.get) of a name that scope S does not declare and that
\* succeeds returns the ScopeVar object a proper ancestor D holds in its locals,
\* and afterwards every scope from S up to but excluding D holds a capture entry
\* for the name, referring to that object; in every scope the capture indices
\* are 0..k-1 in order of first capture, the keys are distinct and no step
\* changes an existing entry; a resolve of a name the scope already declares or
\* has captured adds no entry; a resolve that fails raises ValueError and
\* records no capture in any scope.
C11_Captures ==
    [][/\ \A s \in 1..Len(scopes) :
             /\ Len(scopes'[s].globals) >= Len(scopes[s].globals)
             /\ \A i \in 1..Len(scopes[s].globals) : scopes'[s].globals[i] = scopes[s].globals[i]
       /\ \A s \in 1..Len(scopes') :
             \A i \in 1..Len(scopes'[s].globals) :
                /\ scopes'[s].globals[i].val.index = i - 1
                /\ \A j \in 1..Len(scopes'[s].globals) :
                      scopes'[s].globals[i].key = scopes'[s].globals[j].key => i = j
       /\ lastop'.op = "get" =>
             /\ svars' = svars
             /\ lastop'.err \in {"none", "ValueError"}
             /\ lastop'.err = "ValueError" =>
                   /\ scopes' = scopes
                   /\ \A d \in {lastop'.scope} \cup Ancestors(scopes, lastop'.scope) :
                         ~DictHas(scopes[d].locals, lastop'.name)
             /\ (lastop'.err = "none" /\ ~DictHas(scopes[lastop'.scope].locals, lastop'.name)) =>
                   \E d \in Ancestors(scopes, lastop'.scope) :
                      /\ DictHas(scopes[d].locals, lastop'.name)
                      /\ DictGet(scopes[d].locals, lastop'.name) = lastop'.var
                      /\ \A q \in PathBelow(scopes, lastop'.scope, d) :
                            /\ DictHas(scopes'[q].globals, lastop'.name)
                            /\ DictGet(scopes'[q].globals, lastop'.name).var = lastop'.var
             /\ (DictHas(scopes[lastop'.scope].locals, lastop'.name)
                    \/ DictHas(scopes[lastop'.scope].globals, lastop'.name)) =>
                   /\ lastop'.err = "none"
                   /\ scopes' = scopes]_vars

\* a resolve from a grandchild scope has just found the name in the locals of the
\* root: the grandchild and the scope between them both hold the capture
C11_Witness ==
    /\ lastop.op = "get"
    /\ lastop.err = "none"
    /\ scopes[lastop.scope].parent # 0
    /\ scopes[scopes[lastop.scope].parent].parent # 0
    /\ ~DictHas(scopes[lastop.scope].locals, lastop.name)
    /\ ~DictHas(scopes[scopes[lastop.scope].parent].locals, lastop.name)
    /\ DictHas(scopes[scopes[scopes[lastop.scope].parent].parent].locals, lastop.name)
    /\ DictHas(scopes[lastop.scope].globals, lastop.name)
    /\ DictHas(scopes[scopes[lastop.scope].parent].globals, lastop.name)

-----------------------------------------------------------------------------
(* Spec: typecheck(syntax) on a family of programs.  A syntax term is the    *)
(* dict the parser produces, with the keys build_typed_ast reads; a name is  *)
(* its text.                                                                  *)

IntTerm == [kind |-> "Int"]
StrTerm == [kind |-> "Str"]
BoolTerm == [kind |-> "Bool"]
VarTerm(text) == [kind |-> "Var", text |-> text]
TupleTerm(first, second) == [kind |-> "Tuple", first |-> first, second |-> second]
CallTerm(callee, arguments) == [kind |-> "Call", callee |-> callee, arguments |-> arguments]
BinaryTerm(lhs, op, rhs) == [kind |-> "Binary", lhs |-> lhs, op |-> op, rhs |-> rhs]
IfTerm(condition, then, otherwise) ==
    [kind |-> "If", condition |-> condition, then |-> then, otherwise |-> otherwise]
FunctionTerm(parameters, value) == [kind |-> "Function", parameters |-> parameters, value |-> value]
LetTerm(name, value, next) == [kind |-> "Let", name |-> name, value |-> value, next |-> next]
UnaryTerm(kind, value) == [kind |-> kind, value |-> value]

MaxRounds == 7

\* f(n - 1), f(n - 2), f(n)
RecCall(f, arg) == CallTerm(VarTerm(f), <<arg>>)
NMinus1 == BinaryTerm(VarTerm("n"), "Sub", IntTerm)
NMinus2 == BinaryTerm(VarTerm("n"), "Sub", IntTerm)

\* the test of the conditional of a recursive function of n
RecConditions ==
    {BinaryTerm(VarTerm("n"), "Lt", IntTerm), BinaryTerm(VarTerm("n"), "Eq", IntTerm),
     BoolTerm, BinaryTerm(VarTerm("n"), "Eq", VarTerm("n"))}

\* its base case
RecBases == {VarTerm("n"), IntTerm, NMinus1}

\* its alternate, with the recursive calls as operands of +, * and -
RecAlternates ==
    {BinaryTerm(RecCall("f", NMinus1), "Add", RecCall("f", NMinus2)),
     BinaryTerm(VarTerm("n"), "Add", RecCall("f", NMinus1)),
     BinaryTerm(RecCall("f", NMinus1), "Mul", IntTerm),
     BinaryTerm(RecCall("f", NMinus1), "Sub", RecCall("f", NMinus2)),
     BinaryTerm(IntTerm, "Add", RecCall("f", VarTerm("n"))),
     BinaryTerm(RecCall("f", VarTerm("n")), "Mul", RecCall("f", VarTerm("n"))),
     BinaryTerm(RecCall("f", RecCall("f", NMinus1)), "Add", IntTerm)}

\* let f = fn (n) => { [let _ = 1;] [let k = 1;] if (cond) { base } else { alternate } }; f
RecursivePrograms ==
    {LetTerm("f", FunctionTerm(<<"n">>, body), VarTerm("f")) :
        body \in UNION {{c, LetTerm("_", IntTerm, c), LetTerm("k", IntTerm, c)} :
                        c \in {IfTerm(cond, base, alt) :
                                 cond \in RecConditions, base \in RecBases, alt \in RecAlternates}}}

\* combination(n, k) of the tests, with its result or its signature as the program's value
CombinationPrograms ==
    {LetTerm("f",
             FunctionTerm(<<"n", "k">>,
                 LetTerm("a", BinaryTerm(VarTerm("k"), "Eq", IntTerm),
                 LetTerm("b", BinaryTerm(VarTerm("k"), "Eq", VarTerm("n")),
                 IfTerm(BinaryTerm(VarTerm("a"), "Or", VarTerm("b")),
                        IntTerm,
                        BinaryTerm(CallTerm(VarTerm("f"), <<NMinus1, BinaryTerm(VarTerm("k"), "Sub", IntTerm)>>),
                                   op,
                                   CallTerm(VarTerm("f"), <<NMinus1, VarTerm("k")>>)))))),
             last) :
        op \in {"Add", "Mul"},
        last \in {VarTerm("f"), UnaryTerm("Print", CallTerm(VarTerm("f"), <<IntTerm, IntTerm>>))}}

\* arguments of the concrete kinds Integer, String, Boolean
ConcreteArgs ==
    {IntTerm, BinaryTerm(IntTerm, "Add", IntTerm), StrTerm, BoolTerm,
     BinaryTerm(IntTerm, "Lt", IntTerm)}

\* let fun = fn (a) => a; let a = fun(x); let b = fun(y); b
IdentityPrograms ==
    {LetTerm("fun", FunctionTerm(<<"a">>, VarTerm("a")),
     LetTerm("a", CallTerm(VarTerm("fun"), <<x>>),
     LetTerm("b", CallTerm(VarTerm("fun"), <<y>>), VarTerm("b")))) :
        x \in ConcreteArgs, y \in ConcreteArgs}

\* let x = fn () => body; x   with x inside body
SelfReferencePrograms ==
    {LetTerm("x", FunctionTerm(<<>>, body), VarTerm("x")) :
        body \in {VarTerm("x"), TupleTerm(VarTerm("x"), IntTerm), TupleTerm(IntTerm, VarTerm("x")),
                  UnaryTerm("First", TupleTerm(VarTerm("x"), IntTerm)),
                  CallTerm(VarTerm("x"), <<>>)}}

\* let f = fn (a) => body; let y = value; f(y)
ArgumentPrograms ==
    {LetTerm("f", FunctionTerm(<<"a">>, body), LetTerm("y", value, CallTerm(VarTerm("f"), <<VarTerm("y")>>))) :
        body \in {IntTerm, VarTerm("a"), BinaryTerm(VarTerm("a"), "Sub", IntTerm)},
        value \in {IntTerm, BinaryTerm(IntTerm, "Add", IntTerm), TupleTerm(IntTerm, IntTerm),
                   UnaryTerm("Print", IntTerm), UnaryTerm("Second", TupleTerm(IntTerm, StrTerm))}}

\* programs that raise: an undefined name, a redeclaration, more arguments than parameters
RaisingPrograms ==
    {VarTerm("x"),
     LetTerm("x", IntTerm, LetTerm("x", StrTerm, VarTerm("x"))),
     LetTerm("f", FunctionTerm(<<"a">>, VarTerm("a")), CallTerm(VarTerm("f"), <<IntTerm, IntTerm>>))}

\* calls with fewer or more arguments than the callee has parameters, the callee a Function
\* term or a name bound to one
MismatchPrograms ==
    UNION {{CallTerm(f, args), LetTerm("f", f, CallTerm(VarTerm("f"), args))} :
              <<f, args>> \in {<<FunctionTerm(<<"a", "b">>, VarTerm("a")), <<IntTerm>>>>,
                               <<FunctionTerm(<<"a">>, IntTerm), <<>>>>,
                               <<FunctionTerm(<<"a">>, VarTerm("a")), <<IntTerm, StrTerm>>>>,
                               <<FunctionTerm(<<>>, IntTerm), <<IntTerm>>>>}}

\* programs on which the loop exits with node slots that a further round would change:
\* if ((fn (b) => b)(second(1))) 1 else 1, and let x = "s"; (x - 1) + (fn () => x)
ReinferPrograms ==
    {IfTerm(CallTerm(FunctionTerm(<<"b">>, VarTerm("b")), <<UnaryTerm("Second", IntTerm)>>), IntTerm, IntTerm),
     LetTerm("x", StrTerm, BinaryTerm(BinaryTerm(VarTerm("x"), "Sub", IntTerm), "Add",
                                      FunctionTerm(<<>>, VarTerm("x"))))}

\* a named function whose result is a conditional in a branch of a conditional
NestedBranchPrograms ==
    {LetTerm("f", FunctionTerm(<<"n">>, body), RecCall("f", IntTerm)) :
        body \in UNION {{IfTerm(BoolTerm, c, RecCall("f", NMinus1)), IfTerm(BoolTerm, IntTerm, c),
                         LetTerm("k", IntTerm, IfTerm(BoolTerm, c, StrTerm))} :
                        c \in {IfTerm(BinaryTerm(VarTerm("n"), "Lt", IntTerm), base, RecCall("f", NMinus1)) :
                                 base \in {IntTerm, StrTerm, VarTerm("n")}}}}

\* values that hold the name x and are not Function terms
SelfValues ==
    {VarTerm("x"), TupleTerm(VarTerm("x"), IntTerm), BinaryTerm(VarTerm("x"), "Add", IntTerm),
     UnaryTerm("Print", VarTerm("x")), CallTerm(VarTerm("x"), <<IntTerm>>),
     IfTerm(BoolTerm, VarTerm("x"), IntTerm)}

\* Function terms whose body holds the name x
SelfFunctions ==
    {FunctionTerm(<<>>, body) :
        body \in {VarTerm("x"), CallTerm(VarTerm("x"), <<>>),
                  IfTerm(BoolTerm, IntTerm, CallTerm(VarTerm("x"), <<>>)),
                  LetTerm("y", VarTerm("x"), VarTerm("y")),
                  FunctionTerm(<<>>, VarTerm("x"))}}

\* let x = value; x   with x inside value and no enclosing declaration of x
SelfInitPrograms == {LetTerm("x", value, VarTerm("x")) : value \in SelfValues}

\* the same Let inside a function or a branch, where the global scope declares x
ShadowInitPrograms ==
    {LetTerm("x", IntTerm, LetTerm("g", FunctionTerm(<<>>, LetTerm("x", value, VarTerm("x"))), VarTerm("g"))) :
        value \in SelfValues \cup SelfFunctions}
    \cup {LetTerm("x", IntTerm, IfTerm(BoolTerm, LetTerm("x", value, VarTerm("x")), IntTerm)) :
            value \in SelfValues \cup SelfFunctions}

\* let x = fn () => body; x   with x inside body
SelfFunctionPrograms == {LetTerm("x", value, VarTerm("x")) : value \in SelfFunctions}

\* programs that use _ as a Let name or as a parameter name
UnderscorePrograms ==
    {LetTerm("_", UnaryTerm("Print", StrTerm), UnaryTerm("Print", VarTerm("_"))),
     LetTerm("_", FunctionTerm(<<>>, VarTerm("_")), IntTerm),
     LetTerm("_", IntTerm, LetTerm("_", IntTerm, IntTerm)),
     LetTerm("f", FunctionTerm(<<"_">>, VarTerm("_")), VarTerm("f")),
     LetTerm("f", FunctionTerm(<<"_">>, VarTerm("_")), CallTerm(VarTerm("f"), <<IntTerm>>)),
     LetTerm("f", FunctionTerm(<<"_">>, IntTerm), CallTerm(VarTerm("f"), <<IntTerm>>)),
     LetTerm("f", FunctionTerm(<<"_", "_">>, IntTerm), VarTerm("f"))}

\* the operators of BinaryOperator
Operators == {"Add", "Sub", "Mul", "Div", "Rem", "Lt", "Lte", "Gt", "Gte", "And", "Or", "Eq", "Neq"}

\* one operator of each Binary class
ClassOperators == {"Add", "Sub", "Lt", "And", "Eq"}

\* operands of static type: literals, a tuple, a function
StaticOperands == {IntTerm, StrTerm, BoolTerm, TupleTerm(IntTerm, StrTerm), FunctionTerm(<<>>, IntTerm)}

\* operands whose type the inference has to find: the parameters a and b
OpenOperands == {VarTerm("a"), VarTerm("b"), IntTerm, StrTerm, BoolTerm}

\* an operator between two static operands (the test_bad_* programs and their well-typed
\* counterparts)
OperandPrograms == {BinaryTerm(l, op, r) : l \in StaticOperands, r \in StaticOperands, op \in Operators}

\* an operator on the parameters of a function
OpenOperandPrograms ==
    {FunctionTerm(<<"a", "b">>, BinaryTerm(l, op, r)) : l \in OpenOperands, r \in OpenOperands,
                                                       op \in ClassOperators}

\* an operator on a let-bound variable
BoundOperandPrograms ==
    {LetTerm("x", v, BinaryTerm(VarTerm("x"), op, w)) :
        v \in StaticOperands \ {FunctionTerm(<<>>, IntTerm)},
        w \in {IntTerm, StrTerm, BoolTerm, VarTerm("x")}, op \in ClassOperators}

\* the operand of first, second and of a condition
KindOperand(kind, v) ==
    IF kind = "If" THEN IfTerm(v, IntTerm, StrTerm) ELSE UnaryTerm(kind, v)

\* first, second and if applied to a static operand, to a parameter, to a let-bound
\* variable and to the result of a call (test_bad_condition)
KindPrograms ==
    UNION {{KindOperand(kind, v),
            FunctionTerm(<<"a">>, KindOperand(kind, VarTerm("a"))),
            LetTerm("x", v, KindOperand(kind, VarTerm("x"))),
            LetTerm("f", FunctionTerm(<<>>, v), KindOperand(kind, CallTerm(VarTerm("f"), <<>>)))} :
           kind \in {"First", "Second", "If"}, v \in StaticOperands}

\* closed programs made of literals, tuples, first, second, print and calls of a value that
\* is no function: the node classes _compile_node has a case for
Members == {IntTerm, StrTerm, BoolTerm}

Pairs ==
    {TupleTerm(a, b) : a, b \in {IntTerm, StrTerm}} \cup {TupleTerm(TupleTerm(StrTerm, IntTerm), StrTerm)}

Values ==
    Members \cup Pairs
        \cup {UnaryTerm(kind, t) : kind \in {"First", "Second"}, t \in Pairs}
        \cup {CallTerm(IntTerm, <<v>>) : v \in {IntTerm, StrTerm}}
        \cup {TupleTerm(CallTerm(StrTerm, <<>>), StrTerm)}

ValuePrograms ==
    Values \cup {UnaryTerm("Print", v) : v \in Values}
        \cup {UnaryTerm("Print", UnaryTerm("Print", v)) : v \in Values}
        \cup {UnaryTerm(kind, UnaryTerm("Print", t)) : kind \in {"First", "Second"}, t \in Pairs}
        \cup {TupleTerm(UnaryTerm("Print", v), UnaryTerm("Print", v)) : v \in Members \cup Pairs}

\* test_vars_scope_by_branch: lets in the branches of a conditional that reuse the name of
\* the enclosing scope's let, or the other branch's
BranchLetPrograms ==
    {LetTerm("x", IntTerm,
             LetTerm(b, IfTerm(BoolTerm, LetTerm(n1, StrTerm, VarTerm(n1)),
                                         LetTerm(n2, TupleTerm(StrTerm, StrTerm), VarTerm(n2))),
                     UnaryTerm("Print", VarTerm("x")))) :
        b \in {"_", "z"}, n1 \in {"x", "y"}, n2 \in {"x", "y"}}

\* a function that calls its parameter, in return position or inside a tuple, applied to
\* an identity function
ParameterCallPrograms ==
    {LetTerm("apply", FunctionTerm(<<"g">>, body), use) :
        body \in {CallTerm(VarTerm("g"), <<IntTerm>>),
                  TupleTerm(CallTerm(VarTerm("g"), <<IntTerm>>), IntTerm)},
        use \in {CallTerm(VarTerm("apply"), <<FunctionTerm(<<"a">>, VarTerm("a"))>>),
                 UnaryTerm("Print", CallTerm(VarTerm("apply"), <<FunctionTerm(<<"a">>, VarTerm("a"))>>))}}

\* test_tuple_generics: a conditional whose branches are tuples that differ in the kind of
\* one component
TupleBranchPrograms ==
    {LetTerm("x", IfTerm(BoolTerm, TupleTerm(IntTerm, a), TupleTerm(b, StrTerm)), VarTerm("x")) :
        a \in {IntTerm, StrTerm}, b \in {IntTerm, StrTerm}}

Programs ==
    RecursivePrograms \cup CombinationPrograms \cup IdentityPrograms \cup SelfReferencePrograms
        \cup ArgumentPrograms \cup RaisingPrograms
        \cup SelfInitPrograms \cup ShadowInitPrograms \cup SelfFunctionPrograms
        \cup UnderscorePrograms
        \cup OperandPrograms \cup OpenOperandPrograms \cup BoundOperandPrograms \cup KindPrograms
        \cup ValuePrograms \cup BranchLetPrograms \cup ParameterCallPrograms
        \cup TupleBranchPrograms \cup MismatchPrograms \cup ReinferPrograms
        \cup NestedBranchPrograms

Init ==
    /\ pc = "start"
    /\ prog \in Programs
    /\ ast = EmptyHeap
    /\ rounds = 0
    /\ code = <<>>
    /\ mem = <<>>
    /\ LatticeIdle
    /\ ScopeIdle
    /\ BoxIdle

\* typecheck up to its loop: globalscope = Scope(None); allvars = [];
\* ast = build_typed_ast(syntax, None, globalscope, allvars)
BuildAst ==
    /\ pc = "start"
    /\ LET built == build_typed_ast(Scope(EmptyHeap, 0), prog, 0, 1, 0)
       IN /\ ast' = [built.h EXCEPT !.root = built.id]
          /\ pc' = IF built.h.err # "none" THEN "raised" ELSE "infer"
    /\ UNCHANGED <<prog, rounds, code, mem, lvars, scvars, bvars>>

\* one iteration of typecheck's loop: ast.infertype(BOUND_ANY_TYPE), then the scan of allvars
\* that clears the changed flags and ends the loop when none was set
InferRound ==
    /\ pc = "infer"
    /\ rounds < MaxRounds
    /\ LET inferred == infertype(ast, ast.root, BOUND_ANY_TYPE).h
           varschanged == \E i \in 1..Len(inferred.allvars) : inferred.vars[inferred.allvars[i]].changed
           cleared == [inferred EXCEPT !.vars = [v \in 1..Len(inferred.vars) |->
                                                   IF \E i \in 1..Len(inferred.allvars) : inferred.allvars[i] = v
                                                   THEN [inferred.vars[v] EXCEPT !.changed = FALSE]
                                                   ELSE inferred.vars[v]]]
       IN IF inferred.err # "none"
          THEN ast' = inferred /\ pc' = "raised"
          ELSE ast' = cleared /\ pc' = IF varschanged THEN "infer" ELSE "inferred"
    /\ rounds' = rounds + 1
    /\ UNCHANGED <<prog, code, mem, lvars, scvars, bvars>>

\* ast.typecheck(), the last statement of typecheck(): validation of the inferred AST
Validate ==
    /\ pc = "inferred"
    /\ ast' = typecheck(ast, ast.root)
    /\ pc' = IF ast'.err # "none" THEN "raised" ELSE "checked"
    /\ UNCHANGED <<prog, rounds, code, mem, lvars, scvars, bvars>>

\* CoralCompiler.compile_ir on the validated AST.  (Importing coral.compiler evaluates the
\* annotation `node: ast.BinaryExpression` of _compile_binary_expression and raises the
\* AttributeError of _compile_node's case; the action runs the methods as they are written.)
CompileIr ==
    /\ pc = "checked"
    /\ code' = compile_ir(ast)
    /\ pc' = IF code'.err # "none" THEN "uncompiled" ELSE "compiled"
    /\ UNCHANGED <<prog, ast, rounds, mem, lvars, scvars, bvars>>

\* the compiled program is run
Execute ==
    /\ pc = "compiled"
    /\ mem' = Run(Memory(code.values), code.ops)
    /\ pc' = IF mem'.err # "none" THEN "aborted" ELSE "exited"
    /\ UNCHANGED <<prog, ast, rounds, code, lvars, scvars, bvars>>

Next == BuildAst \/ InferRound \/ Validate \/ CompileIr \/ Execute

Spec == Init /\ [][Next]_vars

-----------------------------------------------------------------------------
(* Claims about typecheck's inference loop, checked under Spec.              *)

\* the loop has exited: no ScopeVar was changed by the last round
LoopExited == pc = "inferred"

\* rounds of the loop have run MaxRounds times and each of them changed a ScopeVar
StillChanging == pc = "infer" /\ rounds = MaxRounds

\* the current type of the ScopeVar the global scope declares as name
GlobalType(name) == ast.vars[DictGet(ast.scopes[1].locals, name)].type

\* the ReferenceExpression nodes whose type slot differs from their ScopeVar's current type
StaleReferences ==
    {n \in 1..Len(ast.nodes) :
        /\ ast.nodes[n].cls = "ReferenceExpression"
        /\ ~eq(ast.nodes[n].boundtype, ast.vars[ast.nodes[n].var].type)}

\* C1: for every program that builds, the inference loop of typecheck ends after
\* finitely many rounds (here: within MaxRounds rounds), also when a function's
\* body holds a reference to the function itself inside a tuple.
C1_LoopTerminates == ~StillChanging

\* C2: once the inference loop has exited, the type slot of every
\* ReferenceExpression, call arguments included, equals the current type of the
\* ScopeVar it refers to.
C2_ReferencesCurrent == LoopExited => StaleReferences = {}

\* the operators whose operands infertype constrains to Integer
IntegerOperators == {"Sub", "Mul", "Div", "Rem", "Lt", "Lte", "Gt", "Gte"}

RECURSIVE ConstrainsToInteger(_, _)
\* term holds name as an operand of an Integer-only operator, or of an equality
\* whose other operand is an Integer literal
ConstrainsToInteger(term, name) ==
    CASE term.kind = "Binary" ->
            \/ /\ term.op \in IntegerOperators
               /\ (term.lhs = VarTerm(name) \/ term.rhs = VarTerm(name))
            \/ /\ term.op \in {"Eq", "Neq"}
               /\ \/ term.lhs = VarTerm(name) /\ term.rhs = IntTerm
                  \/ term.rhs = VarTerm(name) /\ term.lhs = IntTerm
            \/ ConstrainsToInteger(term.lhs, name)
            \/ ConstrainsToInteger(term.rhs, name)
      [] term.kind = "If" ->
            \/ ConstrainsToInteger(term.condition, name)
            \/ ConstrainsToInteger(term.then, name)
            \/ ConstrainsToInteger(term.otherwise, name)
      [] term.kind = "Let" ->
            ConstrainsToInteger(term.value, name) \/ ConstrainsToInteger(term.next, name)
      [] term.kind = "Call" ->
            \/ ConstrainsToInteger(term.callee, name)
            \/ \E i \in 1..Len(term.arguments) : ConstrainsToInteger(term.arguments[i], name)
      [] term.kind = "Tuple" ->
            ConstrainsToInteger(term.first, name) \/ ConstrainsToInteger(term.second, name)
      [] term.kind \in {"Print", "First", "Second", "Function"} ->
            ConstrainsToInteger(term.value, name)
      [] OTHER -> FALSE

\* prog is a self-recursive function f whose body is a conditional, recursive
\* calls in the alternate only, as operands of Integer operators
IsRecursiveProgram == prog \in RecursivePrograms \cup CombinationPrograms

\* the base-case branch of f's conditional is typed Integer
BaseCaseIsInteger ==
    \A n \in 1..Len(ast.nodes) :
        ast.nodes[n].cls = "ConditionalExpression" =>
            eq(ast.nodes[ast.nodes[n].then].boundtype, BOUND_INTEGER_TYPE)

\* every parameter of f is constrained to Integer somewhere in f's body
ParametersConstrained ==
    \A i \in 1..Len(prog.value.parameters) :
        ConstrainsToInteger(prog.value.value, prog.value.parameters[i])

\* Function((Integer, ...), Integer) of f's arity
IntegerSignature ==
    BoundFunctionType([i \in 1..Len(prog.value.parameters) |-> BOUND_INTEGER_TYPE], BOUND_INTEGER_TYPE)

KindOf(arg) ==
    CASE arg.kind = "Int" -> "INTEGER"
      [] arg.kind = "Str" -> "STRING"
      [] arg.kind = "Bool" -> "BOOLEAN"
      [] arg.kind = "Binary" /\ arg.op = "Add" -> "INTEGER"
      [] arg.kind = "Binary" /\ arg.op = "Lt" -> "BOOLEAN"

\* prog calls the identity function fun at two call sites with arguments of distinct kinds
IsOverloadedIdentity ==
    /\ prog \in IdentityPrograms
    /\ KindOf(prog.next.value.arguments[1]) # KindOf(prog.next.next.value.arguments[1])

\* C4: when one let-bound identity function is called at two call sites with
\* arguments of two distinct concrete kinds, the loop reaches its fixed point
\* and there the function's parameter type and return type are Undefined and so
\* is the type of each call.
C4_OverloadedIdentity ==
    IsOverloadedIdentity =>
        /\ ~StillChanging
        /\ LoopExited =>
              /\ eq(GlobalType("fun"), BoundFunctionType(<<BOUND_UNDEFINED_TYPE>>, BOUND_UNDEFINED_TYPE))
              /\ \A n \in 1..Len(ast.nodes) :
                    /\ ast.nodes[n].cls = "CallExpression" =>
                          eq(ast.nodes[n].boundtype, BOUND_UNDEFINED_TYPE)
                    /\ (ast.nodes[n].cls = "FunctionExpression") =>
                          /\ eq(ast.vars[ast.nodes[ast.nodes[n].params[1]].var].type, BOUND_UNDEFINED_TYPE)
                          /\ eq(ast.nodes[n].boundtype.return_type, BOUND_UNDEFINED_TYPE)

-----------------------------------------------------------------------------
(* Claims about build_typed_ast, checked under Spec.                         *)

\* the child Expression objects a node holds in its fields
Children(node) ==
    CASE node.cls = "TupleExpression" -> {node.first, node.second}
      [] node.cls \in {"PrintExpression", "FirstExpression", "SecondExpression",
                       "TypeCheckExpression"} -> {node.value}
      [] node.cls \in {"ConcatenateExpression", "ArithmeticExpression", "NumericComparisonExpression",
                       "BooleanExpression", "EqualsExpression"} -> {node.left, node.right}
      [] node.cls = "ConditionalExpression" -> {node.cond, node.then, node.alternate}
      [] node.cls = "CallExpression" -> {node.callee} \cup {node.args[i] : i \in 1..Len(node.args)}
      [] node.cls = "FunctionExpression" -> {node.body} \cup {node.params[i] : i \in 1..Len(node.params)}
      [] node.cls = "LetExpression" -> {node.value, node.next} \cup ({node.binding} \ {0})
      [] OTHER -> {}

RECURSIVE Subtree(_, _)
\* the nodes of the tree rooted at n
Subtree(h, n) == {n} \cup UNION {Subtree(h, c) : c \in Children(h.nodes[n])}

\* the build has ended, with an AST or with an exception
Built == pc # "start"

\* the LetExpression nodes that bind a name
BindingLets == {n \in 1..Len(ast.nodes) : ast.nodes[n].cls = "LetExpression" /\ ast.nodes[n].binding # 0}

\* the ScopeVar a LetExpression binds
BoundVar(let) == ast.nodes[ast.nodes[let].binding].var

\* the ReferenceExpression nodes inside the value of a LetExpression
ValueReferences(let) ==
    {r \in Subtree(ast, ast.nodes[let].value) : ast.nodes[r].cls = "ReferenceExpression"}

\* reference r names the variable the Let binds and no scope between r and the Let's scope declares that name
NamesBinding(r, let) ==
    /\ ast.vars[ast.nodes[r].var].name = ast.vars[BoundVar(let)].name
    /\ \A q \in PathBelow(ast.scopes, ast.nodes[r].scope, ast.nodes[let].scope) :
          ~DictHas(ast.scopes[q].locals, ast.vars[BoundVar(let)].name)

\* C12: a Let of a Function value with a name other than _ declares the name
\* before the function is built: the build succeeds and a reference to the name
\* inside the function resolves to the Let's own binding.  A Let of any other
\* value declares the name after the value is built: no reference inside the
\* value resolves to the Let's binding, and `let x = <value holding x>` raises
\* ValueError unless an enclosing scope declares x.
C12_LetOrder ==
    Built =>
        /\ prog \in SelfInitPrograms => pc = "raised" /\ ast.err = "ValueError"
        /\ prog \in ShadowInitPrograms \cup SelfFunctionPrograms => ast.err \notin {"ValueError", "SyntaxError"}
        /\ ast.err = "none" =>
              \A let \in BindingLets : \A r \in ValueReferences(let) :
                 IF ast.nodes[ast.nodes[let].value].cls = "FunctionExpression"
                 THEN NamesBinding(r, let) => ast.nodes[r].var = BoundVar(let)
                 ELSE ast.nodes[r].var # BoundVar(let)

\* inside a function of a program whose global scope declares x, `let x = fn () => ... x ...`
\* was built and the x of the inner function refers to the inner Let's binding
C12_Witness ==
    /\ Built
    /\ ast.err = "none"
    /\ prog \in ShadowInitPrograms
    /\ \E let \in BindingLets :
          /\ ast.nodes[let].scope # 1
          /\ ast.nodes[ast.nodes[let].value].cls = "FunctionExpression"
          /\ \E r \in ValueReferences(let) : NamesBinding(r, let) /\ ast.nodes[r].var = BoundVar(let)

\* C13: after building any AST no scope holds a local binding named _, whether
\* _ is a Let name or a parameter name, and so no reference resolves to _.
C13_NoUnderscore ==
    Built =>
        /\ \A q \in 1..Len(ast.scopes) : ~DictHas(ast.scopes[q].locals, "_")
        /\ \A v \in 1..Len(ast.vars) : ast.vars[v].name # "_"
        /\ \A r \in 1..Len(ast.nodes) :
              ast.nodes[r].cls = "ReferenceExpression" => ast.vars[ast.nodes[r].var].name # "_"

-----------------------------------------------------------------------------
(* Claims about the validation pass.                                         *)

\* ast.typecheck() has run: it returned, or one of the typecheck methods raised
Validated == pc = "checked" \/ (pc = "raised" /\ ast.at # 0)

BinaryClasses == {"ConcatenateExpression", "ArithmeticExpression", "NumericComparisonExpression",
                  "BooleanExpression", "EqualsExpression"}

\* the Binary nodes of the tree
BinaryNodes == {n \in Subtree(ast, ast.root) : ast.nodes[n].cls \in BinaryClasses}

\* the operand the source program wrote in self.<field>, under an inserted TypeCheck node
Operand(n, field) ==
    IF ast.nodes[ast.nodes[n][field]].cls = "TypeCheckExpression"
    THEN ast.nodes[ast.nodes[n][field]].value
    ELSE ast.nodes[n][field]

\* the kinds an operator accepts
AcceptedKinds(cls) ==
    CASE cls = "ConcatenateExpression" -> {"INTEGER", "STRING"}
      [] cls \in {"ArithmeticExpression", "NumericComparisonExpression"} -> {"INTEGER"}
      [] cls = "BooleanExpression" -> {"BOOLEAN"}
      [] cls = "EqualsExpression" -> {"BOOLEAN", "INTEGER", "STRING"}

LeftType(n) == ast.nodes[Operand(n, "left")].boundtype
RightType(n) == ast.nodes[Operand(n, "right")].boundtype

\* an operand of n is static and not accepted, or n compares two static operands of
\* different kinds
StaticallyRejected(n) ==
    \/ is_static(LeftType(n)) /\ TypeOf(LeftType(n)) \notin AcceptedKinds(ast.nodes[n].cls)
    \/ is_static(RightType(n)) /\ TypeOf(RightType(n)) \notin AcceptedKinds(ast.nodes[n].cls)
    \/ /\ ast.nodes[n].cls = "EqualsExpression"
       /\ is_static(LeftType(n)) /\ is_static(RightType(n))
       /\ TypeOf(LeftType(n)) # TypeOf(RightType(n))

\* both operands of n are static, of accepted and (for == and !=) matching kinds
StaticallyAccepted(n) ==
    /\ is_static(LeftType(n)) /\ TypeOf(LeftType(n)) \in AcceptedKinds(ast.nodes[n].cls)
    /\ is_static(RightType(n)) /\ TypeOf(RightType(n)) \in AcceptedKinds(ast.nodes[n].cls)
    /\ ast.nodes[n].cls = "EqualsExpression" => TypeOf(LeftType(n)) = TypeOf(RightType(n))

\* C15: when validation has run over a tree with a Binary node that has a static operand
\* its operator does not accept (or == / != between static operands of different kinds),
\* it ended with a TypeError; and the Binary node whose typecheck raised, if one did, does
\* not have two static operands of accepted, matching kinds.
C15_BinaryOperands ==
    Validated =>
        /\ (\E n \in BinaryNodes : StaticallyRejected(n)) => pc = "raised" /\ ast.err = "TypeError"
        /\ (pc = "raised" /\ ast.nodes[ast.at].cls \in BinaryClasses) => ~StaticallyAccepted(ast.at)

\* C15 for the operators that have an entry in _BINOP_SYMBOL
C15_OperandsWithSymbol ==
    (Validated /\ \A n \in BinaryNodes : ast.nodes[n].op \in BINOP_SYMBOL) => C15_BinaryOperands

\* the fields of a node that need a given kind, as <<field, kind>>
CheckedFields(cls) ==
    CASE cls \in {"ArithmeticExpression", "NumericComparisonExpression"} ->
            {<<"left", "INTEGER">>, <<"right", "INTEGER">>}
      [] cls = "BooleanExpression" -> {<<"left", "BOOLEAN">>, <<"right", "BOOLEAN">>}
      [] cls = "ConditionalExpression" -> {<<"cond", "BOOLEAN">>}
      [] cls \in {"FirstExpression", "SecondExpression"} -> {<<"value", "TUPLE">>}
      [] OTHER -> {}

\* in the heap after, field f of node n still is the operand o and o has a static type of
\* the kind
KeptStatic(after, n, f, kind, o) ==
    /\ after.nodes[n][f] = o
    /\ is_static(after.nodes[o].boundtype)
    /\ TypeOf(after.nodes[o].boundtype) = kind

\* in the heap after, field f of node n is a TypeCheck node made by the validation, which
\* expects the kind, holds the operand o, has n as parent and is the parent of o
Guarded(before, after, n, f, kind, o) ==
    LET check == after.nodes[n][f]
    IN /\ check \notin 1..Len(before.nodes)
       /\ after.nodes[check].cls = "TypeCheckExpression"
       /\ TypeOf(after.nodes[check].boundtype) = kind
       /\ after.nodes[check].value = o
       /\ after.nodes[check].parent = n
       /\ after.nodes[o].parent = check

\* C16: a validation that succeeds leaves every operand of an Arithmetic, NumericComparison
\* or Boolean node, every condition and every operand of first/second either in place with
\* a static type of the required kind, or under a new TypeCheck node that expects that
\* kind, holds the operand, has the operator node as parent and is the operand's parent.
C16_RuntimeChecks ==
    [][(pc = "inferred" /\ pc' = "checked") =>
         \A n \in Subtree(ast, ast.root) :
            \A fk \in CheckedFields(ast.nodes[n].cls) :
               \/ KeptStatic(ast', n, fk[1], fk[2], ast.nodes[n][fk[1]])
               \/ Guarded(ast, ast', n, fk[1], fk[2], ast.nodes[n][fk[1]])]_vars

\* a validated tree in which an arithmetic or comparison node has one operand under a
\* TypeCheck node and the other in place, and a condition or a first/second operand is
\* under a TypeCheck node too
C16_Witness ==
    /\ pc = "checked"
    /\ \E n \in Subtree(ast, ast.root) :
          /\ ast.nodes[n].cls \in {"ArithmeticExpression", "NumericComparisonExpression"}
          /\ ast.nodes[ast.nodes[n].left].cls = "TypeCheckExpression"
          /\ ast.nodes[ast.nodes[n].right].cls = "LiteralIntegerValue"
    /\ \E n \in Subtree(ast, ast.root) :
          /\ ast.nodes[n].cls \in {"ConditionalExpression", "FirstExpression", "SecondExpression"}
          /\ \E fk \in CheckedFields(ast.nodes[n].cls) :
                ast.nodes[ast.nodes[n][fk[1]]].cls = "TypeCheckExpression"

-----------------------------------------------------------------------------
(* Claims about code generation and the run of the compiled program.         *)

\* compile_ir has ended, with the emitted calls or with an exception
Compiled == pc \in {"compiled", "uncompiled", "exited", "aborted"}

\* the classes of the nodes of the validated AST
NodeClasses == {ast.nodes[n].cls : n \in Subtree(ast, ast.root)}

\* the name a LetExpression binds
LetName(let) == ast.vars[BoundVar(let)].name

\* the scope of node n and the scopes around it
Enclosing(n) == {ast.nodes[n].scope} \cup Ancestors(ast.scopes, ast.nodes[n].scope)

ConditionalNodes == {n \in 1..Len(ast.nodes) : ast.nodes[n].cls = "ConditionalExpression"}

\* the named lets of a branch
BranchLets(branch) == Subtree(ast, branch) \cap BindingLets

\* let `let` of branch `branch` of conditional c reuses a name that a scope around c
\* declares, or that a let of the other branch binds
Reuses(c, branch, other, let) ==
    /\ let \in BranchLets(branch)
    /\ \/ \E s \in Enclosing(c) : DictHas(ast.scopes[s].locals, LetName(let))
       \/ \E l \in BranchLets(other) : LetName(l) = LetName(let)

ReusingLets ==
    {let \in BindingLets : \E c \in ConditionalNodes :
        \/ Reuses(c, ast.nodes[c].then, ast.nodes[c].alternate, let)
        \/ Reuses(c, ast.nodes[c].alternate, ast.nodes[c].then, let)}

\* the references that follow a let whose value is a conditional with such a let
ReferencesAfter ==
    {r \in 1..Len(ast.nodes) :
        /\ ast.nodes[r].cls = "ReferenceExpression"
        /\ \E l \in 1..Len(ast.nodes) :
              /\ ast.nodes[l].cls = "LetExpression"
              /\ ast.nodes[l].value \in ConditionalNodes
              /\ Subtree(ast, ast.nodes[l].value) \cap ReusingLets # {}
              /\ r \in Subtree(ast, ast.nodes[l].next)}

\* reference r denotes the variable that a scope around r declares under r's name
DenotesOuter(r) ==
    \E s \in Enclosing(r) :
        /\ DictHas(ast.scopes[s].locals, ast.vars[ast.nodes[r].var].name)
        /\ DictGet(ast.scopes[s].locals, ast.vars[ast.nodes[r].var].name) = ast.nodes[r].var

\* C14: a let inside the then or alternate branch of a Conditional may reuse a name
\* declared in the enclosing scope or in the other branch without an error, both when
\* the typed AST is built and when the enclosing function is compiled, and a reference
\* to that name after the Conditional denotes the outer binding.
C14_BranchLets ==
    prog \in BranchLetPrograms =>
        /\ pc # "raised"
        /\ pc # "uncompiled"
        /\ Built => \A r \in ReferencesAfter : DenotesOuter(r)

\* the half of C14 about the typed AST: built, inferred and validated without an error,
\* the branches' lets reuse names, the reference after the conditional is the outer x
C14_TypedAstHalf ==
    prog \in BranchLetPrograms =>
        /\ pc # "raised"
        /\ Built => /\ ReusingLets # {}
                    /\ ReferencesAfter # {}
                    /\ \A r \in ReferencesAfter :
                          DenotesOuter(r) /\ ast.nodes[r].scope = 1 /\ ast.vars[ast.nodes[r].var].index = 0

\* C18: every node variant that can occur in a validated typed AST, the five Binary
\* variants and the TypeCheck nodes included, is lowered by the code generator without
\* an unsupported-node failure (and a TypeCheck node's code raises a runtime type error
\* on a value of another kind).
C18_EveryVariantLowered == Compiled => code.err = "none"

\* what _compile_node does instead: the compilation succeeds exactly when every node
\* is of a class whose case stands before `case ast.BinaryExpression()`
C18_LoweredClasses == Compiled => (code.err = "none" <=> NodeClasses \subseteq CompiledClasses)

\* the calls whose callee is a reference to a parameter of Function type
ParameterCalls ==
    {n \in Subtree(ast, ast.root) :
        /\ ast.nodes[n].cls = "CallExpression"
        /\ ast.nodes[ast.nodes[n].callee].cls = "ReferenceExpression"
        /\ TypeOf(ast.nodes[ast.nodes[n].callee].boundtype) = "FUNCTION"
        /\ \E f \in Subtree(ast, ast.root) :
              /\ ast.nodes[f].cls = "FunctionExpression"
              /\ \E i \in 1..Len(ast.nodes[f].params) :
                    ast.nodes[ast.nodes[f].params[i]].var = ast.nodes[ast.nodes[n].callee].var}

\* C19: compiling a Call whose callee is Function-typed but has no statically known IR
\* function (a function received as a parameter) emits a call through the runtime
\* dispatcher CRFunction_call, in return position as in non-return position, without a
\* compile-time error.
C19_DynamicDispatch ==
    (Compiled /\ ParameterCalls # {}) =>
        /\ code.err = "none"
        /\ \E i \in 1..Len(code.ops) : code.ops[i][1] = "CRFunction_call"

\* the Objects the run allocated
Allocated == {o \in 1..Len(mem.heap) : mem.heap[o].type # "none"}

\* C20: the run of the operations emitted for a closed program, under the ownership
\* convention of the runtime, never decrements an Object's refcount below 0 and leaves
\* every allocated Object with refcount 0 at program end.
C20_RefcountConservation ==
    pc = "exited" => /\ ~mem.below
                     /\ \A o \in Allocated : mem.heap[o].refcount = 0

\* what holds instead: no allocated Object is left with a reference at the end of a run
C20_NoLeak == pc = "exited" => \A o \in Allocated : mem.heap[o].refcount = 0

\* the positions in main's code of the calls of a runtime function
Emitted(fn) == {i \in 1..Len(code.ops) : code.ops[i][1] = fn}

\* C28: at the finalization of a function compilation the capacity constant of the GC
\* list equals the number of CRObjectArray_push calls emitted in the function, one per
\* distinct collected boxed object, so the pushes of one call never exceed the capacity;
\* when no object was collected the allocation is removed from the entry block and no push
\* or release of the list has been emitted.
C28_GcCapacity ==
    (Compiled /\ code.err = "none") =>
        /\ ~code.gc_ptr /\ code.gc_objects = <<>>
        /\ \A i, j \in Emitted("CRObjectArray_push") : code.ops[i][3] = code.ops[j][3] => i = j
        /\ IF Emitted("CRObjectArray_push") # {}
           THEN code.gc_alloc /\ code.gc_size = Cardinality(Emitted("CRObjectArray_push"))
           ELSE ~code.gc_alloc /\ Emitted("CRObjectArray_release") = {}

\* main has been compiled with two objects or more on its GC list, and has run
C28_Witness ==
    /\ pc = "exited"
    /\ code.gc_alloc
    /\ code.gc_size >= 2
    /\ Cardinality(Emitted("CRObjectArray_push")) = code.gc_size

-----------------------------------------------------------------------------
(* Claims about the inference rounds, read from the trace ast.log.           *)

\* the positions in the trace of the events of a kind on node n
Events(kind, n) == {i \in 1..Len(ast.log) : ast.log[i][1] = kind /\ ast.log[i][2] = n}

\* the last event of a kind on node n before position i of the trace, 0 when there is none
LastBefore(kind, n, i) ==
    LET found == {j \in Events(kind, n) : j < i}
    IN IF found = {} THEN 0 ELSE CHOOSE j \in found : \A k \in found : k <= j

\* the type infertype returned on n, and the supertype it was called with, in the call of n
\* that last returned, or started, before position i
ReturnedType(n, i) == ast.log[LastBefore("return", n, i)][3]
Supertype(n, i) == ast.log[LastBefore("call", n, i)][3]

\* the end of the trace
Now == Len(ast.log) + 1

IntegerPair == BoundType("TUPLE", <<BOUND_INTEGER_TYPE, BOUND_INTEGER_TYPE>>)
IntegerStringPair == BoundType("TUPLE", <<BOUND_INTEGER_TYPE, BOUND_STRING_TYPE>>)
IntegerUndefinedPair == BoundType("TUPLE", <<BOUND_INTEGER_TYPE, BOUND_UNDEFINED_TYPE>>)

\* C24: after inference the type of a Conditional node equals lower(T, E), T and E being
\* the types of its then and alternate branches inferred against the Conditional's
\* supertype; branches Tuple<Integer, Integer> and Tuple<Integer, String> give
\* Tuple<Integer, Undefined>.
C24_ConditionalType ==
    pc = "inferred" =>
        \A c \in ConditionalNodes :
            LET then == ast.nodes[c].then
                alternate == ast.nodes[c].alternate
            IN /\ \A i \in Events("return", c) :
                     /\ Supertype(then, i) = Supertype(c, i)
                     /\ Supertype(alternate, i) = Supertype(c, i)
                     /\ eq(ast.log[i][3], lower(ReturnedType(then, i), ReturnedType(alternate, i)))
                     /\ (eq(ReturnedType(then, i), IntegerPair)
                            /\ eq(ReturnedType(alternate, i), IntegerStringPair))
                           => eq(ast.log[i][3], IntegerUndefinedPair)
               /\ Events("return", c) # {} => eq(ast.nodes[c].boundtype, ReturnedType(c, Now))

\* inference has ended on a conditional whose branches were inferred as
\* Tuple<Integer, Integer> and Tuple<Integer, String> in some round and whose type is
\* Tuple<Integer, Undefined>
C24_Witness ==
    /\ pc = "inferred"
    /\ \E c \in ConditionalNodes : \E i \in Events("return", c) :
          /\ eq(ReturnedType(ast.nodes[c].then, i), IntegerPair)
          /\ eq(ReturnedType(ast.nodes[c].alternate, i), IntegerStringPair)
          /\ eq(ast.nodes[c].boundtype, IntegerUndefinedPair)

PrintNodes == {n \in 1..Len(ast.nodes) : ast.nodes[n].cls = "PrintExpression"}

\* C30: after inference the type slot of every Print node equals the type that inferring
\* its operand returned in the last round.
C30_PrintSlot ==
    pc = "inferred" =>
        \A p \in PrintNodes :
            Events("return", p) # {} =>
                eq(ast.nodes[p].boundtype, ReturnedType(ast.nodes[p].value, Now))

\* what infertype returns on a Print node is the type its operand returned, while the slot
\* keeps the Any it was built with
C30_PrintReturns ==
    pc = "inferred" =>
        \A p \in PrintNodes :
            /\ ast.nodes[p].boundtype = BOUND_ANY_TYPE
            /\ \A i \in Events("return", p) : ast.log[i][3] = ReturnedType(ast.nodes[p].value, i)

\* the Call nodes of heap h whose callee's slot holds a Function type with a number of
\* parameters other than the number of the call's arguments
MismatchedCalls(h) ==
    {n \in 1..Len(h.nodes) :
        /\ h.nodes[n].cls = "CallExpression"
        /\ TypeOf(h.nodes[h.nodes[n].callee].boundtype) = "FUNCTION"
        /\ Len(h.nodes[h.nodes[n].callee].boundtype.params) # Len(h.nodes[n].args)}

FewerArguments(h, n) == Len(h.nodes[n].args) < Len(h.nodes[h.nodes[n].callee].boundtype.params)

\* C29: an inference round over a Call whose number of arguments differs from the number
\* of parameters of the callee's current Function type, fewer or more, ends without an
\* internal error and leaves the Call node with the type Undefined.
C29_ArityMismatch ==
    [][pc = "infer" =>
         \A n \in MismatchedCalls(ast) :
             ast'.err = "none" /\ eq(ast'.nodes[n].boundtype, BOUND_UNDEFINED_TYPE)]_vars

\* with fewer arguments than parameters the round does so; with more it ends in IndexError
C29_FewerOrIndexError ==
    [][pc = "infer" =>
         \A n \in MismatchedCalls(ast) :
             IF FewerArguments(ast, n)
             THEN ast'.err = "none" /\ eq(ast'.nodes[n].boundtype, BOUND_UNDEFINED_TYPE)
             ELSE ast'.err = "IndexError"]_vars

\* the nodes whose type slot is static
StaticNodes == {n \in 1..Len(ast.nodes) : is_static(ast.nodes[n].boundtype)}

\* C27: after the inference loop has exited, infertype(Any) on a node whose type slot is
\* static returns the type of the slot and leaves the slot and the type of every ScopeVar
\* as they were.
C27_Reinference ==
    pc = "inferred" =>
        \A n \in StaticNodes :
            LET again == infertype(ast, n, BOUND_ANY_TYPE)
            IN /\ again.h.err = "none"
               /\ eq(again.t, ast.nodes[n].boundtype)
               /\ eq(again.h.nodes[n].boundtype, ast.nodes[n].boundtype)
               /\ \A v \in 1..Len(ast.vars) : eq(again.h.vars[v].type, ast.vars[v].type)

\* the nodes that give node n its result: n itself, the next of a Let among them, the
\* branches of a Conditional among them; with lets = FALSE the Lets are not entered
RECURSIVE ResultPosition(_, _)
ResultPosition(n, lets) ==
    {n} \cup CASE ast.nodes[n].cls = "LetExpression" /\ lets -> ResultPosition(ast.nodes[n].next, lets)
              [] ast.nodes[n].cls = "ConditionalExpression" ->
                     ResultPosition(ast.nodes[n].then, lets) \cup ResultPosition(ast.nodes[n].alternate, lets)
              [] OTHER -> {}

NamedFunctions ==
    {n \in 1..Len(ast.nodes) : ast.nodes[n].cls = "FunctionExpression" /\ ast.nodes[n].binding # 0}

\* the Conditionals that give the body of function f its result
ResultConditionals(f, lets) == ResultPosition(ast.nodes[f].body, lets) \cap ConditionalNodes

\* each time the alternate of c is entered, handle_partial_inference of f has been called
\* with the type then returned, after that return
Delivered(f, c) ==
    \A j \in Events("call", ast.nodes[c].alternate) :
        \E k \in Events("partial", f) :
            /\ LastBefore("return", ast.nodes[c].then, j) < k
            /\ k < j
            /\ ast.log[k][3] = ReturnedType(ast.nodes[c].then, j)

\* C23: for a Conditional that is the result of a named function's body (the body, the
\* next of enclosing Lets, a branch of enclosing Conditionals), in every round the type of
\* then reaches the Function's handle_partial_inference after then is inferred and before
\* alternate is inferred.
C23_PartialDelivery ==
    \A f \in NamedFunctions : \A c \in ResultConditionals(f, TRUE) : Delivered(f, c)

\* it does where no Let lies between the Function and the Conditional; the next of a
\* Let has no parent and delivers to no one
C23_WithoutLets ==
    \A f \in NamedFunctions :
        /\ \A c \in ResultConditionals(f, FALSE) : Delivered(f, c)
        /\ \A c \in ResultConditionals(f, TRUE) \ ResultConditionals(f, FALSE) :
              \A j \in Events("call", ast.nodes[c].alternate) :
                  \A k \in Events("partial", f) : ~(LastBefore("call", c, j) < k /\ k < j)

-----------------------------------------------------------------------------
(* Tagged boxing: the words that the instructions emitted by                 *)
(* CoralInteger.box and CoralInteger.unbox compute.  An LL_INT is a number    *)
(* in 0..Word-1, the unsigned reading of its bits; LL_INT has 64 bits in the  *)
(* generator and IntBits here.  An LL_BOOL is 0 or 1.  A pointer is as wide   *)
(* as an LL_INT, so inttoptr and ptrtoint keep the bits.                      *)

IntBits == 6

RECURSIVE Pow2(_)
Pow2(n) == IF n = 0 THEN 1 ELSE 2 * Pow2(n - 1)

Word == Pow2(IntBits)

\* the two's complement reading of an LL_INT
Signed(x) == IF x >= Word \div 2 THEN x - Word ELSE x

\* builder.shl(value, ir.Constant(LL_INT, k))
shl(x, k) == (x * Pow2(k)) % Word

RECURSIVE or_(_, _)
\* builder.or_(x, y): bit by bit
or_(x, y) ==
    IF x = 0 THEN y
    ELSE IF y = 0 THEN x
    ELSE (IF x % 2 = 1 \/ y % 2 = 1 THEN 1 ELSE 0) + 2 * or_(x \div 2, y \div 2)

\* builder.zext(value, LL_INT) of an LL_BOOL: the new high bits are 0
zext(b) == b % 2

\* a shift right that fills with zeros
lshr(x, k) == x \div Pow2(k)

\* builder.ashr(intptr, ir.Constant(LL_INT, k)): the sign bit fills the k high bits
ashr(x, k) == (x \div Pow2(k)) + (IF x >= Word \div 2 THEN Word - Word \div Pow2(k) ELSE 0)

\* builder.trunc(value, LL_BOOL): the lowest bit
trunc(x) == x % 2

\* CoralInteger.box of an unboxed object: the value of the boxed object
CoralInteger_box(type_, value) ==
    CASE type_ = "INTEGER" -> or_(shl(value, 2), 1)
      [] type_ = "BOOLEAN" -> or_(shl(zext(value), 2), 2)

\* CoralInteger.unbox of a boxed object: the value of the unboxed object
CoralInteger_unbox(type_, value) ==
    CASE type_ = "INTEGER" -> ashr(value, 2)
      [] type_ = "BOOLEAN" -> trunc(ashr(value, 2))

BInit ==
    /\ bpc = "unboxed"
    /\ btype \in {"INTEGER", "BOOLEAN"}
    /\ bvalue \in IF btype = "INTEGER" THEN 0..(Word - 1) ELSE {0, 1}
    /\ bword = 0 /\ bback = 0 /\ bagain = 0
    /\ LatticeIdle
    /\ ScopeIdle
    /\ InferIdle

\* obj.box() on the unboxed object
Box ==
    /\ bpc = "unboxed"
    /\ bword' = CoralInteger_box(btype, bvalue)
    /\ bpc' = "boxed"
    /\ UNCHANGED <<btype, bvalue, bback, bagain, lvars, scvars, ivars>>

\* obj.box().unbox()
Unbox ==
    /\ bpc = "boxed"
    /\ bback' = CoralInteger_unbox(btype, bword)
    /\ bpc' = "back"
    /\ UNCHANGED <<btype, bvalue, bword, bagain, lvars, scvars, ivars>>

\* obj.box().unbox().box()
BoxAgain ==
    /\ bpc = "back"
    /\ bagain' = CoralInteger_box(btype, bback)
    /\ bpc' = "again"
    /\ UNCHANGED <<btype, bvalue, bword, bback, lvars, scvars, ivars>>

BNext == Box \/ Unbox \/ BoxAgain

SpecBox == BInit /\ [][BNext]_vars

\* the integers of IntBits - 2 bits in two's complement
Representable(x) == -(Word \div 8) <= Signed(x) /\ Signed(x) < Word \div 8

\* C21: boxing an Integer v gives the word (v << 2) | 1 and boxing a Boolean b gives
\* (b << 2) | 2, so the low two bits are 01 for Integer and 10 for Boolean; unboxing is an
\* arithmetic shift right by 2; unbox(box(v)) = v for every integer v of the word width
\* minus 2 bits, negative ones included, and for both Booleans; box(unbox(w)) = w for every
\* tagged word w so produced.
C21_TaggedBoxing ==
    /\ bpc \in {"boxed", "back", "again"} =>
          /\ bword % 4 = (IF btype = "INTEGER" THEN 1 ELSE 2)
          /\ bword \div 4 = bvalue % (Word \div 4)
    /\ bpc \in {"back", "again"} =>
          /\ btype = "INTEGER" => 4 * Signed(bback) + 1 = Signed(bword)
          /\ (btype = "INTEGER" /\ Representable(bvalue)) => bback = bvalue
          /\ btype = "BOOLEAN" => bback = bvalue
    /\ bpc = "again" => bagain = bword

\* a negative integer of IntBits - 2 bits other than -1 has made the round trip
C21_Witness ==
    /\ bpc = "again"
    /\ btype = "INTEGER"
    /\ Representable(bvalue)
    /\ Signed(bvalue) < -1
    /\ bback = bvalue
-----------------------------------------------------------------------------
(* Claims about the return paths of compiled functions.                      *)

FunctionNodes == {n \in 1..Len(ast.nodes) : ast.nodes[n].cls = "FunctionExpression"}

\* the functions whose body has a Conditional as its result: more than one return path
BranchingFunctions == {f \in FunctionNodes : ResultPosition(ast.nodes[f].body, TRUE) \cap ConditionalNodes # {}}

\* in the code of main, a function without branches: when the GC list is kept there is one
\* release, after every push and before the ret
ReleasedOnce ==
    code.gc_alloc =>
        /\ Cardinality(Emitted("CRObjectArray_release")) = 1
        /\ \A r \in Emitted("CRObjectArray_release") :
              /\ \A i \in Emitted("CRObjectArray_push") : i < r
              /\ \A i \in Emitted("ret") : r < i
        /\ Cardinality(Emitted("ret")) = 1

\* C22: in every compiled function that keeps a GC list after finalization, every path
\* from the entry block to a ret or to a musttail call holds exactly one release of that
\* list, before the ret or the tail call.
C22_ReleaseOnce ==
    (Compiled /\ BranchingFunctions # {}) => (code.err = "none" /\ ReleasedOnce)

\* what is reached: main, the only function that is ever lowered, has a single path, and
\* on it one release when its list is kept
C22_MainReleasesOnce ==
    (Compiled /\ code.err = "none") => (BranchingFunctions = {} /\ ReleasedOnce)

\* the calls in return position of a named function whose callee is the function itself,
\* so that callee and caller have one IR function type
TailCalls ==
    {n \in 1..Len(ast.nodes) :
        /\ ast.nodes[n].cls = "CallExpression"
        /\ ast.nodes[ast.nodes[n].callee].cls = "ReferenceExpression"
        /\ \E f \in NamedFunctions :
              /\ n \in ResultPosition(ast.nodes[f].body, TRUE)
              /\ ast.nodes[ast.nodes[f].binding].var = ast.nodes[ast.nodes[n].callee].var}

\* C25: a Call in return position whose callee has a statically known IR function of the
\* type of the function being compiled is emitted as increfs of its boxed arguments, the
\* release of the GC list, a musttail call and a ret of its value, nothing between the
\* call and the ret; a Call in another position, or with a callee of another IR function
\* type, is never emitted as musttail.
C25_TailCall ==
    (Compiled /\ TailCalls # {}) =>
        /\ code.err = "none"
        /\ \E i \in 1..(Len(code.ops) - 1) :
              /\ code.ops[i][1] = "musttail CRFunction_call"
              /\ code.ops[i + 1][1] = "ret"
              /\ \A r \in Emitted("CRObjectArray_release") : r < i

\* what is reached: no call is emitted as musttail, the calls that main holds are not in
\* return position
C25_NoTailCallEmitted == Compiled => Emitted("musttail CRFunction_call") = {}
====
